---- MODULE Spec2Model ----
(***************************************************************************)
(* MRZ pipeline of CorridorComply: app/core/ocr.py (text normalisation,    *)
(* TD3 parsing, expiry validation, cross-field comparison, orchestration)  *)
(* and app/services/kyc_service.py (use of the verdict).                   *)
(* Strings are sequences of one-character strings.                         *)
(***************************************************************************)
EXTENDS Integers, Sequences, FiniteSets, TLC

VARIABLES
    \* normaliser runs: position, input text, output, output of a second pass
    n_pc, n_in, n_out, n_again,
    \* parser runs: position, field values, TD3 text, result of parse_mrz,
    \* number of characters changed after encoding
    p_pc, p_fields, p_text, p_data, p_changed,
    \* one KYC request (KYCService.process_kyc calling validate_document_ocr):
    \* position; the claimed data of the request; the orientations tried with
    \* their outcomes; the located region; the lines the OCR engine read; the
    \* two text forms; the parsed data; the expiry assessment; the verdict of
    \* validate_document_ocr; the comparison; the response; the stages
    \* invoked, in order
    pc, request, attempts, mrz_image, results, mrz_text, mrz_text_single, mrz_data,
    expiry_validation, document_validation, data_comparison, result, calls,
    \* expiry validator and date conversion runs: position, the YYMMDD string
    \* (or None), datetime.now(), the result of validate_expiry_date, the
    \* result of parse_mrz_date
    d_pc, d_in, d_today, d_out, d_iso,
    \* comparison runs: position, the MRZ record, the claimed record, the
    \* result of compare_mrz_with_request_data
    c_pc, c_mrz, c_req, c_out,
    \* SanctionsLoader: the combined sanctions file on disk, the class
    \* attribute _cache, and the calls made so far with what each returned
    s_file, s_cache, s_log,
    \* update_sanctions_lists: position, the download results, the conversion
    \* results, the result of the combine step, the scripts run in order, the
    \* exit code
    u_pc, u_results, u_conversion_results, u_combine_success, u_scripts, u_exit,
    \* one API request to /aml/screen: position, the client's X-Request-ID
    \* header, request_id of the middleware, request_id of the route, the
    \* audit-log entry, the X-Request-ID header of the response
    a_pc, a_header, a_request_id, a_route_id, a_audit, a_response,
    \* MRZ locator (mrz_detect.main): position, the image size, the bounding
    \* rectangles of the contours found, the debug flag, and the result
    m_pc, m_image, m_cnts, m_debug, m_out,
    \* OCR engine: the module global _ocr_reader, the engines constructed so
    \* far, the position of each caller of get_ocr_reader, what each caller got
    o_reader, o_built, o_pc, o_got,
    \* document-type realignment runs: position, the cleaned lines, the
    \* realigned lines, the lines after a second realignment
    r_pc, r_in, r_out, r_again

norm_vars == <<n_pc, n_in, n_out, n_again>>

parse_vars == <<p_pc, p_fields, p_text, p_data, p_changed>>

kyc_vars == <<pc, request, attempts, mrz_image, results, mrz_text, mrz_text_single, mrz_data,
              expiry_validation, document_validation, data_comparison, result, calls>>

date_vars == <<d_pc, d_in, d_today, d_out, d_iso>>

cmp_vars == <<c_pc, c_mrz, c_req, c_out>>

sanc_vars == <<s_file, s_cache, s_log>>

upd_vars == <<u_pc, u_results, u_conversion_results, u_combine_success, u_scripts, u_exit>>

api_vars == <<a_pc, a_header, a_request_id, a_route_id, a_audit, a_response>>

det_vars == <<m_pc, m_image, m_cnts, m_debug, m_out>>

ocr_vars == <<o_reader, o_built, o_pc, o_got>>

rl_vars == <<r_pc, r_in, r_out, r_again>>

ext_vars == <<upd_vars, api_vars, det_vars, ocr_vars, rl_vars>>

aux_vars == <<date_vars, cmp_vars, sanc_vars, ext_vars>>

vars == <<norm_vars, parse_vars, kyc_vars, aux_vars>>

\* Python's None and a present value: an optional value is a set of at most
\* one element
None == {}

Some(v) == {v}

Val(o) == CHOOSE v \in o : TRUE

(***************************************************************************)
(* Characters                                                              *)
(***************************************************************************)
DigitSeq == <<"0", "1", "2", "3", "4", "5", "6", "7", "8", "9">>

UpperSeq == <<"A", "B", "C", "D", "E", "F", "G", "H", "I", "J", "K", "L", "M",
              "N", "O", "P", "Q", "R", "S", "T", "U", "V", "W", "X", "Y", "Z">>

LowerSeq == <<"a", "b", "c", "d", "e", "f", "g", "h", "i", "j", "k", "l", "m",
              "n", "o", "p", "q", "r", "s", "t", "u", "v", "w", "x", "y", "z">>

Range(s) == {s[i] : i \in DOMAIN s}

Digits == Range(DigitSeq)

Upper == Range(UpperSeq)

Lower == Range(LowerSeq)

\* the character class [A-Z0-9<] of the MRZ alphabet
MrzAlphabet == Upper \cup Digits \cup {"<"}

Fill(c, n) == [i \in 1..n |-> c]

RECURSIVE Concat(_)
Concat(ss) == IF ss = <<>> THEN <<>> ELSE Head(ss) \o Concat(Tail(ss))

\* str.replace(old, new) for one-character old and new
ReplaceChar(s, old, new) == [i \in DOMAIN s |-> IF s[i] = old THEN new ELSE s[i]]

\* re.sub(r'[^...]', '', s): keep the characters of the class
KeepClass(s, C) == SelectSeq(s, LAMBDA c : c \in C)

\* re.sub(r'[C]{n,}', lambda m: '<' * len(m.group()), s): the regex is greedy
\* and leftmost, so each maximal run of class-C characters of length >= n is
\* replaced by a run of '<' of the same length: position i is replaced
\* exactly when some window of n consecutive class-C characters covers it
SubRuns(s, C, n) ==
    [i \in DOMAIN s |->
        IF \E j \in (i - n + 1)..i :
              /\ j >= 1
              /\ j + n - 1 <= Len(s)
              /\ \A k \in j..(j + n - 1) : s[k] \in C
        THEN "<"
        ELSE s[i]]

(***************************************************************************)
(* fix_ocr_angle_brackets (app/core/ocr.py)                                *)
(***************************************************************************)
\* target_length=88 at the only call site
TargetLength == 88

\* Step 1: re.sub(r'[^A-Z0-9<>LI1\|/\-]', '', text)
RemoveInvalid(text) == KeepClass(text, MrzAlphabet \cup {">", "|", "/", "-"})

\* Step 2: '-' and '>' become '<'
FixDashes(text) == ReplaceChar(ReplaceChar(text, "-", "<"), ">", "<")

\* Step 3: runs of 3+ of L/I/1, runs of 2+ of '|', runs of 2+ of '/'
FixMisreadings(text) ==
    LET a == SubRuns(text, {"L", "I", "1"}, 3)
        b == SubRuns(a, {"|"}, 2)
    IN  SubRuns(b, {"/"}, 2)

\* Step 4: fix_mixed_sequence over re.sub(r'[<LI1\|]{3,}', ...)
FixMixedSequences(text) == SubRuns(text, {"<", "L", "I", "1", "|"}, 3)

\* Step 5: re.sub(r'[^A-Z0-9<]', '', text)
FinalCleanupNone(text) == text

FinalCleanup(text) == KeepClass(text, MrzAlphabet)

\* Step 6: pad with '<' or trim from the end
AdjustLengthPadOnly(text, target_length) ==
    IF Len(text) < target_length
    THEN text \o Fill("<", target_length - Len(text))
    ELSE text

AdjustLength(text, target_length) ==
    IF Len(text) < target_length
    THEN text \o Fill("<", target_length - Len(text))
    ELSE IF Len(text) > target_length
         THEN SubSeq(text, 1, target_length)
         ELSE text

fix_ocr_angle_brackets(text, target_length) ==
    AdjustLength(
        FinalCleanup(FixMixedSequences(FixMisreadings(FixDashes(RemoveInvalid(text))))),
        target_length)

(***************************************************************************)
(* The sample text of the specification                                    *)
(***************************************************************************)
\* the sample of the specification: line 1 filled to 44 characters
SampleLine1 ==
    <<"P", "<", "U", "S", "A", "S", "M", "I", "T", "H", "<", "<", "J", "O", "H", "N">>
        \o Fill("<", 28)

SampleLine2 ==
    <<"L", "8", "9", "8", "9", "0", "2", "C", "3", "6", "U", "S", "A",
      "6", "9", "0", "8", "0", "6", "1", "F", "9", "4", "0", "6", "2", "3", "6">>
        \o Fill("<", 14) \o <<"0", "8">>

(***************************************************************************)
(* Inputs of the normaliser                                                *)
(***************************************************************************)
MaxLen == 3

MaxOver == 1

NormAlphabet == {"A", "L", "1", "<", "-", "|", "/", "a"}

RECURSIVE SeqsUpTo(_, _)
SeqsUpTo(S, n) ==
    IF n = 0 THEN {<<>>}
    ELSE LET shorter == SeqsUpTo(S, n - 1)
         IN  shorter \cup {Append(s, c) : s \in {t \in shorter : Len(t) = n - 1}, c \in S}

\* inputs shorter than, as long as and longer than the target length
LongInputs ==
    {pre \o Fill(c, TargetLength - 2 + k) \o <<d>> :
        pre \in SeqsUpTo({"A", "L", "/"}, 1), c \in {"<", "A", "L"},
        k \in 0..(2 + MaxOver), d \in {"A", "1", "|"}}

\* the positions of the sample at which '<' may be read as '-'
DashPositions == {2, 11, 30, 44 + 30, 44 + 41}

\* '<' read as '-' at the positions D of a text
Dashed(line, D) == [k \in DOMAIN line |-> IF k \in D /\ line[k] = "<" THEN "-" ELSE line[k]]

\* the sample with several '<' read as '-'
NoisySamples == {Dashed(SampleLine1 \o SampleLine2, D) : D \in SUBSET DashPositions}

NormInputs == SeqsUpTo(NormAlphabet, MaxLen) \cup LongInputs \cup NoisySamples

NormIdle ==
    /\ n_pc = "idle"
    /\ n_in = <<>>
    /\ n_out = <<>>
    /\ n_again = <<>>

ParseIdle ==
    /\ p_pc = "idle"
    /\ p_fields = None
    /\ p_text = <<>>
    /\ p_data = None
    /\ p_changed = 0

KycIdle ==
    /\ pc = "idle"
    /\ request = None
    /\ attempts = <<>>
    /\ mrz_image = None
    /\ results = None
    /\ mrz_text = <<>>
    /\ mrz_text_single = <<>>
    /\ mrz_data = None
    /\ expiry_validation = None
    /\ document_validation = None
    /\ data_comparison = None
    /\ result = None
    /\ calls = <<>>

DateIdle ==
    /\ d_pc = "idle"
    /\ d_in = None
    /\ d_today = None
    /\ d_out = None
    /\ d_iso = None

CmpIdle ==
    /\ c_pc = "idle"
    /\ c_mrz = None
    /\ c_req = None
    /\ c_out = None

SancIdle ==
    /\ s_file = None
    /\ s_cache = None
    /\ s_log = <<>>

UpdIdle ==
    /\ u_pc = "idle"
    /\ u_results = None
    /\ u_conversion_results = None
    /\ u_combine_success = None
    /\ u_scripts = <<>>
    /\ u_exit = None

ApiIdle ==
    /\ a_pc = "idle"
    /\ a_header = None
    /\ a_request_id = None
    /\ a_route_id = None
    /\ a_audit = None
    /\ a_response = None

DetIdle ==
    /\ m_pc = "idle"
    /\ m_image = None
    /\ m_cnts = <<>>
    /\ m_debug = FALSE
    /\ m_out = None

OcrIdle ==
    /\ o_reader = None
    /\ o_built = 0
    /\ o_pc = <<>>
    /\ o_got = <<>>

RlIdle ==
    /\ r_pc = "idle"
    /\ r_in = <<>>
    /\ r_out = <<>>
    /\ r_again = <<>>

ExtIdle == UpdIdle /\ ApiIdle /\ DetIdle /\ OcrIdle /\ RlIdle

NormInit ==
    /\ n_pc = "input"
    /\ n_in \in NormInputs
    /\ n_out = <<>>
    /\ n_again = <<>>
    /\ ParseIdle
    /\ KycIdle
    /\ DateIdle
    /\ CmpIdle
    /\ SancIdle
    /\ ExtIdle

Normalize ==
    /\ n_pc = "input"
    /\ n_out' = fix_ocr_angle_brackets(n_in, TargetLength)
    /\ n_pc' = "normalized"
    /\ UNCHANGED <<n_in, n_again, parse_vars, kyc_vars, aux_vars>>

NormalizeAgain ==
    /\ n_pc = "normalized"
    /\ n_again' = fix_ocr_angle_brackets(n_out, TargetLength)
    /\ n_pc' = "renormalized"
    /\ UNCHANGED <<n_in, n_out, parse_vars, kyc_vars, aux_vars>>

NormNext == Normalize \/ NormalizeAgain

SpecNorm == NormInit /\ [][NormNext]_vars

(***************************************************************************)
(* TD3 layout and check digits: mrz.checker.td3.TD3CodeChecker, the parser *)
(* that parse_mrz calls, as section 4.4 of the specification states it     *)
(***************************************************************************)
\* Python's s[a:b] for 0 <= a <= b
Slice(s, a, b) == SubSeq(s, a + 1, IF b > Len(s) THEN Len(s) ELSE b)

\* str.rstrip(c)
RStrip(s, c) ==
    LET keep == {i \in DOMAIN s : s[i] # c}
    IN  IF keep = {} THEN <<>>
        ELSE SubSeq(s, 1, CHOOSE i \in keep : \A j \in keep : j <= i)

\* 0-9 as themselves, A-Z as 10-35, '<' (and anything else) as 0
CharVal(c) ==
    IF c \in Digits THEN (CHOOSE i \in DOMAIN DigitSeq : DigitSeq[i] = c) - 1
    ELSE IF c \in Upper THEN (CHOOSE i \in DOMAIN UpperSeq : UpperSeq[i] = c) + 9
    ELSE 0

\* weights cycle 7, 3, 1 from the first character
Weight(i) == <<7, 3, 1>>[((i - 1) % 3) + 1]

RECURSIVE WeightedSum(_, _, _)
WeightedSum(s, lo, hi) ==
    IF lo > hi THEN 0
    ELSE IF lo = hi THEN CharVal(s[lo]) * Weight(lo)
    ELSE LET mid == (lo + hi) \div 2
         IN  WeightedSum(s, lo, mid) + WeightedSum(s, mid + 1, hi)

\* the check digit of a string, as a character
hash_string(s) == DigitSeq[(WeightedSum(s, 1, Len(s)) % 10) + 1]

\* the two lines of a TD3 text: 44 characters, a newline, 44 characters
TD3LineLength == 44

TD3Line1(code) == Slice(code, 0, TD3LineLength)

TD3Line2(code) == Slice(code, TD3LineLength + 1, 2 * TD3LineLength + 1)

\* a structural failure: wrong total length (two lines and the newline), a
\* character outside the MRZ alphabet, or a non-digit in a date
TD3Structural(code) ==
    /\ Len(code) = 2 * TD3LineLength + 1
    /\ code[TD3LineLength + 1] = "\n"
    /\ \A i \in DOMAIN code : i # TD3LineLength + 1 => code[i] \in MrzAlphabet
    /\ \A i \in 14..19 \cup 22..27 : TD3Line2(code)[i] \in Digits

\* the five check digits: document number, birth date, expiry date, personal
\* number and the composite over the four fields with their check digits
DocumentNumberHashOk(l2) == hash_string(Slice(l2, 0, 9)) = l2[10]

BirthDateHashOk(l2) == hash_string(Slice(l2, 13, 19)) = l2[20]

ExpiryDateHashOk(l2) == hash_string(Slice(l2, 21, 27)) = l2[28]

OptionalDataHashOk(l2) == hash_string(Slice(l2, 28, 42)) = l2[43]

FinalHashOk(l2) ==
    hash_string(Slice(l2, 0, 10) \o Slice(l2, 13, 20) \o Slice(l2, 21, 43)) = l2[44]

AllHashes(l2) ==
    /\ DocumentNumberHashOk(l2)
    /\ BirthDateHashOk(l2)
    /\ ExpiryDateHashOk(l2)
    /\ OptionalDataHashOk(l2)
    /\ FinalHashOk(l2)

\* the name field [5:44]: surname and given names are separated by the first
\* '<<'; a remaining '<' inside a name is a space
NameSplit(identifier) ==
    LET id  == RStrip(identifier, "<")
        sep == {k \in 1..(Len(id) - 1) : id[k] = "<" /\ id[k + 1] = "<"}
        k   == CHOOSE x \in sep : \A y \in sep : x <= y
    IN  IF sep = {}
        THEN [surname |-> ReplaceChar(id, "<", " "), name |-> <<>>]
        ELSE [surname |-> ReplaceChar(SubSeq(id, 1, k - 1), "<", " "),
              name    |-> ReplaceChar(SubSeq(id, k + 2, Len(id)), "<", " ")]

TD3Fields(code) ==
    LET l1 == TD3Line1(code)
        l2 == TD3Line2(code)
        n  == NameSplit(Slice(l1, 5, 44))
    IN  [document_type   |-> RStrip(Slice(l1, 0, 2), "<"),
         country         |-> Slice(l1, 2, 5),
         surname         |-> n.surname,
         name            |-> n.name,
         document_number |-> RStrip(Slice(l2, 0, 9), "<"),
         nationality     |-> Slice(l2, 10, 13),
         birth_date      |-> Slice(l2, 13, 19),
         sex             |-> Slice(l2, 20, 21),
         expiry_date     |-> Slice(l2, 21, 27),
         optional_data   |-> RStrip(Slice(l2, 28, 42), "<")]

\* the checker object: either the constructor raises, or it carries the
\* fields and the result of the check-digit validation
TD3CodeChecker(mrz_code) ==
    IF ~TD3Structural(mrz_code)
    THEN [raised |-> TRUE, message |-> "Invalid TD3 code"]
    ELSE [raised |-> FALSE,
          fields |-> TD3Fields(mrz_code),
          result |-> AllHashes(TD3Line2(mrz_code))]

(***************************************************************************)
(* parse_mrz (app/core/ocr.py)                                             *)
(***************************************************************************)
parse_mrz_AlwaysValid(text) ==
    LET td3_check == TD3CodeChecker(text)
    IN  IF td3_check.raised
        THEN [error |-> td3_check.message]
        ELSE [document_type   |-> td3_check.fields.document_type,
              country_code    |-> td3_check.fields.country,
              surname         |-> td3_check.fields.surname,
              given_names     |-> td3_check.fields.name,
              document_number |-> td3_check.fields.document_number,
              nationality     |-> td3_check.fields.nationality,
              birth_date      |-> td3_check.fields.birth_date,
              sex             |-> td3_check.fields.sex,
              expiry_date     |-> td3_check.fields.expiry_date,
              valid_composite |-> TRUE]

parse_mrz_NamesSwapped(text) ==
    LET td3_check == TD3CodeChecker(text)
    IN  IF td3_check.raised
        THEN [error |-> td3_check.message]
        ELSE [document_type   |-> td3_check.fields.document_type,
              country_code    |-> td3_check.fields.country,
              surname         |-> td3_check.fields.name,
              given_names     |-> td3_check.fields.surname,
              document_number |-> td3_check.fields.document_number,
              nationality     |-> td3_check.fields.nationality,
              birth_date      |-> td3_check.fields.birth_date,
              sex             |-> td3_check.fields.sex,
              expiry_date     |-> td3_check.fields.expiry_date,
              valid_composite |-> td3_check.result]

parse_mrz_ChecksumIsError(text) ==
    LET td3_check == TD3CodeChecker(text)
    IN  IF td3_check.raised
        THEN [error |-> td3_check.message]
        ELSE IF ~td3_check.result
        THEN [error |-> "Invalid MRZ format"]
        ELSE [document_type   |-> td3_check.fields.document_type,
              country_code    |-> td3_check.fields.country,
              surname         |-> td3_check.fields.surname,
              given_names     |-> td3_check.fields.name,
              document_number |-> td3_check.fields.document_number,
              nationality     |-> td3_check.fields.nationality,
              birth_date      |-> td3_check.fields.birth_date,
              sex             |-> td3_check.fields.sex,
              expiry_date     |-> td3_check.fields.expiry_date,
              valid_composite |-> td3_check.result]

\* the test "if not td3_check.fields" reads a bound method, which is always
\* true, so that branch never returns; any exception becomes {"error": ...}
parse_mrz(text) ==
    LET td3_check == TD3CodeChecker(text)
    IN  IF td3_check.raised
        THEN [error |-> td3_check.message]
        ELSE [document_type   |-> td3_check.fields.document_type,
              country_code    |-> td3_check.fields.country,
              surname         |-> td3_check.fields.surname,
              given_names     |-> td3_check.fields.name,
              document_number |-> td3_check.fields.document_number,
              nationality     |-> td3_check.fields.nationality,
              birth_date      |-> td3_check.fields.birth_date,
              sex             |-> td3_check.fields.sex,
              expiry_date     |-> td3_check.fields.expiry_date,
              valid_composite |-> td3_check.result]

IsError(d) == "error" \in DOMAIN d

(***************************************************************************)
(* TD3 texts built from field values (section 4.4 layout)                  *)
(***************************************************************************)
PadTo(s, n) == s \o Fill("<", n - Len(s))

EncodeLine2(document_number, nationality, birth_date, sex, expiry_date, optional_data) ==
    LET dn  == PadTo(document_number, 9)
        od  == PadTo(optional_data, 14)
        dnh == <<hash_string(dn)>>
        bdh == <<hash_string(birth_date)>>
        edh == <<hash_string(expiry_date)>>
        odh == <<hash_string(od)>>
        fin == <<hash_string(dn \o dnh \o birth_date \o bdh \o expiry_date \o edh \o od \o odh)>>
    IN  dn \o dnh \o nationality \o birth_date \o bdh \o sex \o expiry_date \o edh
           \o od \o odh \o fin

EncodeLine1(document_type, country, surname, name) ==
    PadTo(document_type, 2) \o country
        \o PadTo(ReplaceChar(surname, " ", "<") \o <<"<", "<">> \o ReplaceChar(name, " ", "<"), 39)

EncodeTD3(f) ==
    EncodeLine1(f.document_type, f.country_code, f.surname, f.given_names)
        \o <<"\n">>
        \o EncodeLine2(f.document_number, f.nationality, f.birth_date, f.sex,
                       f.expiry_date, f.optional_data)

SampleText == SampleLine1 \o <<"\n">> \o SampleLine2

SampleFields ==
    [document_type   |-> <<"P">>,
     country_code    |-> <<"U", "S", "A">>,
     surname         |-> <<"S", "M", "I", "T", "H">>,
     given_names     |-> <<"J", "O", "H", "N">>,
     document_number |-> <<"L", "8", "9", "8", "9", "0", "2", "C", "3">>,
     nationality     |-> <<"U", "S", "A">>,
     birth_date      |-> <<"6", "9", "0", "8", "0", "6">>,
     sex             |-> <<"F">>,
     expiry_date     |-> <<"9", "4", "0", "6", "2", "3">>,
     optional_data   |-> <<>>]

(***************************************************************************)
(* Dates: datetime(year, month, day), datetime.now() and timedelta.days    *)
(***************************************************************************)
\* int(s) for a string over the MRZ alphabet: a ValueError unless s is a
\* non-empty string of digits
Whitespace == {" ", "\n", "\t"}

\* str.strip()
Strip(s) ==
    LET keep == {i \in DOMAIN s : s[i] \notin Whitespace}
    IN  IF keep = {} THEN <<>>
        ELSE SubSeq(s, CHOOSE i \in keep : \A j \in keep : i <= j,
                       CHOOSE i \in keep : \A j \in keep : j <= i)

\* int(s): surrounding whitespace is ignored and a sign is allowed; the rest
\* must be digits (an underscore needs a digit on either side, which a slice
\* of two characters cannot hold)
IntDigits(s) ==
    LET t == Strip(s)
    IN  IF t # <<>> /\ t[1] \in {"+", "-"} THEN Tail(t) ELSE t

IntOk(s) == IntDigits(s) # <<>> /\ \A i \in DOMAIN IntDigits(s) : IntDigits(s)[i] \in Digits

IntOf(s) ==
    LET u == IntDigits(s)
        v[i \in 0..Len(u)] == IF i = 0 THEN 0 ELSE 10 * v[i - 1] + CharVal(u[i])
    IN  IF Strip(s)[1] = "-" THEN 0 - v[Len(u)] ELSE v[Len(u)]

IsLeap(y) == (y % 4 = 0 /\ y % 100 # 0) \/ y % 400 = 0

DaysInMonth(y, m) ==
    IF m = 2 THEN (IF IsLeap(y) THEN 29 ELSE 28)
    ELSE IF m \in {4, 6, 9, 11} THEN 30 ELSE 31

\* datetime(year, month, day) raises ValueError for a month or day out of range
DateOk(y, m, d) == m \in 1..12 /\ d >= 1 /\ d <= DaysInMonth(y, m)

DaysBeforeMonth(y, m) ==
    <<0, 31, 59, 90, 120, 151, 181, 212, 243, 273, 304, 334>>[m]
        + (IF m > 2 /\ IsLeap(y) THEN 1 ELSE 0)

EpochYear == 2000

\* days from 2000-01-01 to the date (negative before it)
DayNumber(y, m, d) ==
    365 * (y - EpochYear) + Cardinality({k \in EpochYear..(y - 1) : IsLeap(k)})
        - Cardinality({k \in y..(EpochYear - 1) : IsLeap(k)})
        + DaysBeforeMonth(y, m) + (d - 1)

\* format specifications 02d and 04d
Fmt2(n) ==
    IF n < 0 THEN <<"-", DigitSeq[((0 - n) % 10) + 1]>>
    ELSE <<DigitSeq[((n \div 10) % 10) + 1], DigitSeq[(n % 10) + 1]>>

Fmt4(n) == Fmt2(n \div 100) \o Fmt2(n % 100)

\* "%Y-%m-%d" and f"{year:04d}-{month:02d}-{day:02d}"
IsoDate(y, m, d) == Fmt4(y) \o <<"-">> \o Fmt2(m) \o <<"-">> \o Fmt2(d)

(***************************************************************************)
(* validate_expiry_date (app/core/ocr.py); today is datetime.now(): a date *)
(* and the seconds since midnight                                          *)
(***************************************************************************)
ExpiryError(message) ==
    [valid |-> FALSE, error |-> Some(message), expiry_date_formatted |-> None,
     is_expired |-> None]

CenturyYearPivot(year) == IF year < 50 THEN year + 2000 ELSE year + 1900

\* lines 98-100 and 157-158: a year below 100 is in 2000-2099
CenturyYear(year) == IF year < 100 THEN year + 2000 ELSE year

\* expiry_date < today, the expiry date being at midnight
Expired(expiry_day, today) ==
    LET today_day == DayNumber(today.date[1], today.date[2], today.date[3])
    IN  expiry_day < today_day \/ (expiry_day = today_day /\ today.time > 0)

\* (expiry_date - today).days: timedelta keeps 0 <= seconds, so days is the floor
DaysUntil(expiry_day, today) ==
    LET today_day == DayNumber(today.date[1], today.date[2], today.date[3])
    IN  IF today.time = 0 THEN expiry_day - today_day ELSE expiry_day - today_day - 1

\* (today - expiry_date).days
DaysSince(expiry_day, today) ==
    DayNumber(today.date[1], today.date[2], today.date[3]) - expiry_day

validate_expiry_date(expiry_date_mrz, today) ==
    IF expiry_date_mrz = None \/ Val(expiry_date_mrz) = <<>>
    THEN ExpiryError(<<"No expiry date found in MRZ">>)
    ELSE LET s  == Val(expiry_date_mrz)
             ys == Slice(s, 0, 2)
             ms == Slice(s, 2, 4)
             ds == Slice(s, 4, 6)
         IN  IF ~(IntOk(ys) /\ IntOk(ms) /\ IntOk(ds))
                \/ ~DateOk(CenturyYear(IntOf(ys)), IntOf(ms), IntOf(ds))
             THEN ExpiryError(<<"Invalid expiry date format: ", s>>)
             ELSE LET year       == CenturyYear(IntOf(ys))
                      expiry_day == DayNumber(year, IntOf(ms), IntOf(ds))
                      is_expired == Expired(expiry_day, today)
                  IN  [valid |-> ~is_expired,
                       is_expired |-> Some(is_expired),
                       expiry_date_formatted |-> Some(IsoDate(year, IntOf(ms), IntOf(ds))),
                       expiry_date_mrz |-> s,
                       days_until_expiry |->
                           IF ~is_expired THEN Some(DaysUntil(expiry_day, today)) ELSE None,
                       days_expired |->
                           IF is_expired THEN Some(DaysSince(expiry_day, today)) ELSE None]

(***************************************************************************)
(* fuzzy_name_match (app/core/fuzzy_match.py): rapidfuzz token_sort_ratio  *)
(***************************************************************************)
ToUpper(c) ==
    IF c \in Lower THEN UpperSeq[CHOOSE i \in DOMAIN LowerSeq : LowerSeq[i] = c] ELSE c

ToLower(c) ==
    IF c \in Upper THEN LowerSeq[CHOOSE i \in DOMAIN UpperSeq : UpperSeq[i] = c] ELSE c

StrUpper(s) == [i \in DOMAIN s |-> ToUpper(s[i])]

StrLower(s) == [i \in DOMAIN s |-> ToLower(s[i])]

\* str.replace(c, "")
RemoveChar(s, c) == SelectSeq(s, LAMBDA x : x # c)

\* needle in haystack
Contains(haystack, needle) ==
    \E i \in 0..(Len(haystack) - Len(needle)) :
        SubSeq(haystack, i + 1, i + Len(needle)) = needle

\* characters in code-point order, for sorted()
CodeOrder ==
    <<"\t", "\n", " ", "-", "/">> \o DigitSeq \o <<"<", ">">> \o UpperSeq \o LowerSeq \o <<"|">>

Code(c) == CHOOSE i \in DOMAIN CodeOrder : CodeOrder[i] = c

StrLess(a, b) ==
    \/ \E k \in 1..Len(a) :
          /\ k <= Len(b)
          /\ SubSeq(a, 1, k - 1) = SubSeq(b, 1, k - 1)
          /\ Code(a[k]) < Code(b[k])
    \/ Len(a) < Len(b) /\ SubSeq(b, 1, Len(a)) = a

\* str.split(): the maximal runs of non-whitespace characters, in order
Tokens(s) ==
    LET starts == {i \in DOMAIN s : s[i] \notin Whitespace /\ (i = 1 \/ s[i - 1] \in Whitespace)}
        EndOf(i) == CHOOSE e \in i..Len(s) :
                        /\ \A k \in i..e : s[k] \notin Whitespace
                        /\ (e = Len(s) \/ s[e + 1] \in Whitespace)
    IN  {<<i, SubSeq(s, i, EndOf(i))>> : i \in starts}

\* " ".join(sorted(s.split())): equal tokens keep their order of appearance
RECURSIVE JoinSorted(_)
JoinSorted(toks) ==
    IF toks = {} THEN <<>>
    ELSE LET least == CHOOSE t \in toks :
                        \A u \in toks :
                            u = t \/ StrLess(t[2], u[2]) \/ (t[2] = u[2] /\ t[1] < u[1])
             rest  == JoinSorted(toks \ {least})
         IN  IF rest = <<>> THEN least[2] ELSE least[2] \o <<" ">> \o rest

\* length of the longest common subsequence, row by row: row[i + 1] is the
\* length for the first i characters of a and the characters of b read so far;
\* the next character c of b is either unused or matched with some a[k]
MaxOf(S) == CHOOSE x \in S : \A y \in S : y <= x

LcsRow(a, c, prev) ==
    [i \in 1..(Len(a) + 1) |->
        MaxOf({prev[i]} \cup {prev[k] + 1 : k \in {x \in 1..(i - 1) : a[x] = c}})]

RECURSIVE LcsRows(_, _, _, _)
LcsRows(a, b, j, prev) ==
    IF j > Len(b) \/ Len(prev) # Len(a) + 1 THEN prev[Len(a) + 1]
    ELSE LcsRows(a, b, j + 1, LcsRow(a, b[j], prev))

Lcs(a, b) == LcsRows(a, b, 1, [i \in 1..(Len(a) + 1) |-> 0])

\* fuzz.ratio: 100 * (1 - indel_distance / (len1 + len2)), kept as the
\* fraction <<2 * lcs, len1 + len2>> of 1; two empty strings give 1
Ratio(a, b) == IF Len(a) + Len(b) = 0 THEN <<1, 1>> ELSE <<2 * Lcs(a, b), Len(a) + Len(b)>>

token_sort_ratio(a, b) == Ratio(JoinSorted(Tokens(a)), JoinSorted(Tokens(b)))

\* the score divided by 100, as a fraction
fuzzy_name_match(name1, name2) ==
    IF name1 = <<>> \/ name2 = <<>> THEN <<0, 1>>
    ELSE token_sort_ratio(Strip(StrLower(name1)), Strip(StrLower(name2)))

\* similarity >= percent / 100
AtLeast(similarity, percent) == 100 * similarity[1] >= percent * similarity[2]

(***************************************************************************)
(* compare_mrz_with_request_data (app/core/ocr.py); dictionaries are       *)
(* functions from keys to strings, an absent key is outside the domain     *)
(***************************************************************************)
\* dict.get(key, "")
Get(d, key) == IF key \in DOMAIN d THEN d[key] ELSE <<>>

SuppliedKeyOnly(request_data, key) == key \in DOMAIN request_data

\* "key" in request_data and request_data.get("key")
Supplied(request_data, key) == key \in DOMAIN request_data /\ request_data[key] # <<>>

normalize_name(name) ==
    IF name = <<>> THEN <<>> ELSE RemoveChar(RemoveChar(StrUpper(name), " "), "<")

\* YYMMDD to YYYY-MM-DD; any failure of int() gives None; the month and day
\* are not checked against the calendar
parse_mrz_date(mrz_date) ==
    LET ys == Slice(mrz_date, 0, 2)
        ms == Slice(mrz_date, 2, 4)
        ds == Slice(mrz_date, 4, 6)
    IN  IF IntOk(ys) /\ IntOk(ms) /\ IntOk(ds)
        THEN Some(IsoDate(CenturyYear(IntOf(ys)), IntOf(ms), IntOf(ds)))
        ELSE None

Nothing == [matches |-> <<>>, mismatches |-> <<>>, warnings |-> <<>>]

Match(field) == [matches |-> <<field>>, mismatches |-> <<>>, warnings |-> <<>>]

Mismatch(entry) == [matches |-> <<>>, mismatches |-> <<entry>>, warnings |-> <<>>]

CompareDocumentNumberNoWarning(mrz, request_data) ==
    IF ~Supplied(request_data, "document_number") THEN Nothing
    ELSE LET mrz_doc_num == Strip(RemoveChar(Get(mrz, "document_number"), "<"))
             req_doc_num == Strip(Get(request_data, "document_number"))
             similarity  == fuzzy_name_match(StrUpper(mrz_doc_num), StrUpper(req_doc_num))
         IN  IF mrz_doc_num = <<>> \/ req_doc_num = <<>> THEN Nothing
             ELSE IF StrUpper(mrz_doc_num) = StrUpper(req_doc_num) THEN Match("document_number")
             ELSE IF AtLeast(similarity, 90)
                  THEN Match("document_number")
                  ELSE Mismatch([field |-> "document_number", mrz_value |-> mrz_doc_num,
                                 request_value |-> req_doc_num, similarity |-> similarity])

\* 1. document number
CompareDocumentNumber(mrz, request_data) ==
    IF ~Supplied(request_data, "document_number") THEN Nothing
    ELSE LET mrz_doc_num == Strip(RemoveChar(Get(mrz, "document_number"), "<"))
             req_doc_num == Strip(Get(request_data, "document_number"))
             similarity  == fuzzy_name_match(StrUpper(mrz_doc_num), StrUpper(req_doc_num))
         IN  IF mrz_doc_num = <<>> \/ req_doc_num = <<>> THEN Nothing
             ELSE IF StrUpper(mrz_doc_num) = StrUpper(req_doc_num) THEN Match("document_number")
             ELSE IF AtLeast(similarity, 90)
                  THEN [matches |-> <<"document_number">>, mismatches |-> <<>>,
                        warnings |-> <<[text |-> "Document number similar but not exact",
                                        similarity |-> similarity]>>]
                  ELSE Mismatch([field |-> "document_number", mrz_value |-> mrz_doc_num,
                                 request_value |-> req_doc_num, similarity |-> similarity])

\* 2. surname against last name
CompareLastName(mrz, request_data) ==
    LET mrz_surname   == normalize_name(Get(mrz, "surname"))
        req_last_name == normalize_name(Get(request_data, "last_name"))
        similarity    == fuzzy_name_match(mrz_surname, req_last_name)
    IN  IF ~("first_name" \in DOMAIN request_data \/ "last_name" \in DOMAIN request_data)
        THEN Nothing
        ELSE IF mrz_surname = <<>> \/ req_last_name = <<>> THEN Nothing
        ELSE IF AtLeast(similarity, 85) THEN Match("last_name")
        ELSE Mismatch([field |-> "last_name", mrz_value |-> Get(mrz, "surname"),
                       request_value |-> Get(request_data, "last_name"),
                       similarity |-> similarity])

CompareFirstNameMissingIsMismatch(mrz, request_data) ==
    LET mrz_given_names == normalize_name(Get(mrz, "given_names"))
        req_first_name  == normalize_name(Get(request_data, "first_name"))
        similarity      == fuzzy_name_match(mrz_given_names, req_first_name)
    IN  IF ~("first_name" \in DOMAIN request_data \/ "last_name" \in DOMAIN request_data)
        THEN Nothing
        ELSE IF req_first_name = <<>> THEN Nothing
        ELSE IF mrz_given_names # <<>> /\
                (\/ AtLeast(similarity, 80)
                 \/ Contains(mrz_given_names, req_first_name)
                 \/ Contains(req_first_name, mrz_given_names))
             THEN Match("first_name")
        ELSE Mismatch([field |-> "first_name", mrz_value |-> Get(mrz, "given_names"),
                       request_value |-> Get(request_data, "first_name"),
                       similarity |-> similarity])

\* 2. given names against first name
CompareFirstName(mrz, request_data) ==
    LET mrz_given_names == normalize_name(Get(mrz, "given_names"))
        req_first_name  == normalize_name(Get(request_data, "first_name"))
        similarity      == fuzzy_name_match(mrz_given_names, req_first_name)
    IN  IF ~("first_name" \in DOMAIN request_data \/ "last_name" \in DOMAIN request_data)
        THEN Nothing
        ELSE IF mrz_given_names = <<>> \/ req_first_name = <<>> THEN Nothing
        ELSE IF \/ AtLeast(similarity, 80)
                \/ Contains(mrz_given_names, req_first_name)
                \/ Contains(req_first_name, mrz_given_names)
             THEN Match("first_name")
        ELSE Mismatch([field |-> "first_name", mrz_value |-> Get(mrz, "given_names"),
                       request_value |-> Get(request_data, "first_name"),
                       similarity |-> similarity])

CompareDateIgnoresCentury(mrz, mrz_key, request_data, key) ==
    IF ~Supplied(request_data, key) THEN Nothing
    ELSE LET mrz_date == parse_mrz_date(Get(mrz, mrz_key))
             req_date == Get(request_data, key)
         IN  IF mrz_date = None THEN Nothing
             ELSE IF Slice(Val(mrz_date), 2, 10) = Slice(req_date, 2, 10) THEN Match(key)
             ELSE Mismatch([field |-> key, mrz_value |-> Val(mrz_date),
                            request_value |-> req_date])

\* 3. and 5. dates: the ISO form of the MRZ date against the request string
CompareDate(mrz, mrz_key, request_data, key) ==
    IF ~Supplied(request_data, key) THEN Nothing
    ELSE LET mrz_date == parse_mrz_date(Get(mrz, mrz_key))
             req_date == Get(request_data, key)
         IN  IF mrz_date = None THEN Nothing
             ELSE IF Val(mrz_date) = req_date THEN Match(key)
             ELSE Mismatch([field |-> key, mrz_value |-> Val(mrz_date),
                            request_value |-> req_date])

\* 4. and 6. country codes: stripped, compared without case
CompareCode(mrz, mrz_key, request_data, key) ==
    IF ~Supplied(request_data, key) THEN Nothing
    ELSE LET mrz_code == Strip(Get(mrz, mrz_key))
             req_code == Strip(Get(request_data, key))
         IN  IF mrz_code = <<>> \/ req_code = <<>> THEN Nothing
             ELSE IF StrUpper(mrz_code) = StrUpper(req_code) THEN Match(key)
             ELSE Mismatch([field |-> key, mrz_value |-> mrz_code,
                            request_value |-> req_code])

\* lines 139-143 and 279-286: the lists of the comparison and their counts
ComparisonSummary(parts) ==
    LET matches    == Concat([k \in DOMAIN parts |-> parts[k].matches])
        mismatches == Concat([k \in DOMAIN parts |-> parts[k].mismatches])
        warnings   == Concat([k \in DOMAIN parts |-> parts[k].warnings])
    IN  [matches |-> matches,
         mismatches |-> mismatches,
         warnings |-> warnings,
         match_count |-> Len(matches),
         mismatch_count |-> Len(mismatches),
         all_match |-> Len(mismatches) = 0]

compare_mrz_with_request_data(mrz, request_data) ==
    ComparisonSummary(<<CompareDocumentNumber(mrz, request_data),
                        CompareLastName(mrz, request_data),
                        CompareFirstName(mrz, request_data),
                        CompareDate(mrz, "birth_date", request_data, "date_of_birth"),
                        CompareCode(mrz, "nationality", request_data, "nationality"),
                        CompareDate(mrz, "expiry_date", request_data, "expiry_date"),
                        CompareCode(mrz, "country_code", request_data, "issuing_country")>>)

(***************************************************************************)
(* Comparison runs: compare_mrz_with_request_data is applied to an MRZ     *)
(* record and a claimed record; a claimed record is a dictionary in which  *)
(* a key may be absent                                                     *)
(***************************************************************************)
\* at most this many fields of a claimed record take a value outside the
\* plain ones (absent, empty, equal to the MRZ value)
MaxVaried == 1

Str(s) == [i \in 1..Len(s) |-> s[i]]

CmpMrzRecords ==
    { parse_mrz(SampleText),
      \* no document number and no given names
      parse_mrz(EncodeTD3([SampleFields EXCEPT !.document_number = <<>>,
                                               !.given_names = <<>>])) }

PlainValues ==
    [document_number |-> {None, Some(<<>>), Some(Str(<<"L", "8", "9", "8", "9", "0", "2", "C", "3">>))},
     names           |-> {None, Some(<<<<>>, <<>>>>),
                          Some(<<Str(<<"J", "o", "h", "n">>), Str(<<"S", "m", "i", "t", "h">>)>>)},
     date_of_birth   |-> {None, Some(<<>>), Some(Str(<<"2", "0", "6", "9", "-", "0", "8", "-", "0", "6">>))},
     nationality     |-> {None, Some(<<>>), Some(Str(<<"u", "s", "a">>))},
     expiry_date     |-> {None, Some(<<>>), Some(Str(<<"2", "0", "9", "4", "-", "0", "6", "-", "2", "3">>))},
     issuing_country |-> {None, Some(<<>>), Some(Str(<<"U", "S", "A">>))}]

VariedValues ==
    [document_number |-> {Some(Str(<<"l", "8", "9", "8", "9", "0", "2", "c", "3">>)),
                          Some(Str(<<" ", "L", "8", "9", "8", "9", "0", "2", "C", "3", " ">>)),
                          Some(Str(<<"L", "8", "9", "8", "9", "0", "2", "C", "9">>)),
                          Some(Str(<<"L", "8", "9", "8", "9", "0", "2", "C", "3", "1">>)),
                          Some(Str(<<"X", "1", "2", "3">>)),
                          Some(Str(<<" ", " ">>))},
     names           |-> {Some(<<Str(<<"J", "O", "N">>), Str(<<"S", "M", "Y", "T", "H">>)>>),
                          Some(<<Str(<<"M", "a", "r", "y">>), Str(<<"J", "o", "n", "e", "s">>)>>)},
     date_of_birth   |-> {Some(Str(<<"1", "9", "6", "9", "-", "0", "8", "-", "0", "6">>)),
                          Some(Str(<<"2", "0", "6", "9", "-", "8", "-", "6">>)),
                          Some(Str(<<" ">>))},
     nationality     |-> {Some(Str(<<"E", "G", "Y">>)), Some(Str(<<"U", "S">>))},
     expiry_date     |-> {Some(Str(<<"2", "0", "9", "4", "-", "0", "6", "-", "2", "4">>)),
                          Some(Str(<<"9", "4", "0", "6", "2", "3">>))},
     issuing_country |-> {Some(Str(<<"E", "G", "Y">>))}]

CmpFields == DOMAIN PlainValues

CmpValues(f) == PlainValues[f] \cup VariedValues[f]

CmpChoices ==
    {o \in [document_number : CmpValues("document_number"),
            names           : CmpValues("names"),
            date_of_birth   : CmpValues("date_of_birth"),
            nationality     : CmpValues("nationality"),
            expiry_date     : CmpValues("expiry_date"),
            issuing_country : CmpValues("issuing_country")] :
        Cardinality({f \in CmpFields : o[f] \in VariedValues[f]}) <= MaxVaried}

\* the dictionary of a choice: the keys of the fields that are present
RequestOf(o) ==
    LET keys == {f \in CmpFields \ {"names"} : o[f] # None}
                \cup (IF o["names"] # None THEN {"first_name", "last_name"} ELSE {})
    IN  [k \in keys |->
            IF k = "first_name" THEN Val(o["names"])[1]
            ELSE IF k = "last_name" THEN Val(o["names"])[2]
            ELSE Val(o[k])]

CmpInit ==
    /\ c_pc = "input"
    /\ c_mrz \in {Some(m) : m \in CmpMrzRecords}
    /\ c_req \in {Some(RequestOf(o)) : o \in CmpChoices}
    /\ c_out = None
    /\ NormIdle
    /\ ParseIdle
    /\ KycIdle
    /\ DateIdle
    /\ SancIdle
    /\ ExtIdle

Compare ==
    /\ c_pc = "input"
    /\ c_out' = Some(compare_mrz_with_request_data(Val(c_mrz), Val(c_req)))
    /\ c_pc' = "compared"
    /\ UNCHANGED <<c_mrz, c_req, norm_vars, parse_vars, kyc_vars, date_vars, sanc_vars, ext_vars>>

CmpNext == Compare

SpecCompare == CmpInit /\ [][CmpNext]_vars

(***************************************************************************)
(* Expiry validator and date conversion runs: validate_expiry_date and     *)
(* parse_mrz_date are applied to a YYMMDD string at some datetime.now()    *)
(***************************************************************************)
\* every two-digit year with three days of the year
YearDates ==
    {<<DigitSeq[a + 1], DigitSeq[b + 1]>> \o md :
        a \in 0..9, b \in 0..9,
        md \in {<<"0", "1", "0", "1">>, <<"0", "6", "1", "5">>, <<"1", "2", "3", "1">>}}

\* dates at the edges of the calendar, and strings that are no date
OtherDates ==
    { <<"2", "6", "1", "1", "0", "2">>, <<"2", "6", "1", "1", "0", "3">>,
      <<"2", "4", "0", "2", "2", "9">>, <<"2", "5", "0", "2", "2", "9">>,
      <<"9", "4", "1", "3", "4", "1">>, <<"9", "4", "0", "6", "3", "1">>,
      <<"9", "4", "0", "0", "0", "0">>, <<"9", "4", "0", "6", "0", "0">>,
      <<>>, <<"9">>, <<"9", "4">>, <<"9", "4", "0">>, <<"9", "4", "0", "6">>,
      <<"9", "4", "0", "6", "2">>,
      <<"9", "4", "O", "6", "2", "3">>, <<"<", "<", "<", "<", "<", "<">>,
      <<"9", "A", "0", "6", "2", "3">>, <<"9", "4", "-", "6", "2", "3">>,
      <<"9", "4", "0", "6", "2", "X">>, <<"A", "B", "C", "D", "E", "F">> }

DateInputs == {None} \cup {Some(d) : d \in YearDates \cup OtherDates}

\* datetime.now(): the date and the seconds since midnight
DateTodays ==
    { [date |-> <<2025, 1, 1>>, time |-> 0],
      [date |-> <<2026, 11, 2>>, time |-> 43200],
      [date |-> <<2029, 12, 31>>, time |-> 43200],
      [date |-> <<2030, 1, 1>>, time |-> 0],
      [date |-> <<2030, 1, 1>>, time |-> 1],
      [date |-> <<2030, 1, 2>>, time |-> 0] }

DateInit ==
    /\ d_pc = "input"
    /\ d_in \in DateInputs
    /\ d_today \in {Some(t) : t \in DateTodays}
    /\ d_out = None
    /\ d_iso = None
    /\ NormIdle
    /\ ParseIdle
    /\ KycIdle
    /\ CmpIdle
    /\ SancIdle
    /\ ExtIdle

\* validate_expiry_date(mrz_data.get("expiry_date"))
ValidateExpiryDate ==
    /\ d_pc = "input"
    /\ d_out' = Some(validate_expiry_date(d_in, Val(d_today)))
    /\ d_pc' = "validated"
    /\ UNCHANGED <<d_in, d_today, d_iso, norm_vars, parse_vars, kyc_vars, cmp_vars, sanc_vars, ext_vars>>

\* parse_mrz_date(mrz_data.get("expiry_date", ""))
ConvertDate ==
    /\ d_pc = "validated"
    /\ d_iso' = Some(parse_mrz_date(IF d_in = None THEN <<>> ELSE Val(d_in)))
    /\ d_pc' = "converted"
    /\ UNCHANGED <<d_in, d_today, d_out, norm_vars, parse_vars, kyc_vars, cmp_vars, sanc_vars, ext_vars>>

DateNext == ValidateExpiryDate \/ ConvertDate

SpecDate == DateInit /\ [][DateNext]_vars

(***************************************************************************)
(* SanctionsLoader (app/services/sanctions_loader.py): load and            *)
(* clear_cache are called in any order while the file on disk stays as it  *)
(* is                                                                      *)
(***************************************************************************)
\* calls made in one run
MaxCalls == 3

\* rows of a file
MaxRows == 2

\* the name column of a row
SanctionNames == {<<>>, Str(<<"J", "o", "h", "n", " ", " ", "D", "o", "e">>), Str(<<"a", "c", "m", "e", " ">>)}

SanctionRows == UNION {[1..n -> [name : SanctionNames]] : n \in 0..MaxRows}

\* the latest combined_sanctions_*.csv: whether it has the required columns,
\* and its rows
SanctionFiles == [required_columns : BOOLEAN, rows : SanctionRows]

\* the path argument of load: None, the file itself, a file that is not there
PathArgs == {None, Some("sample_file"), Some("missing_file")}

\* str.replace(r"\s+", " ", regex=True) after str.upper().str.strip()
CollapseSpaces(t) ==
    LET u == [i \in DOMAIN t |-> IF t[i] \in Whitespace THEN " " ELSE t[i]]
    IN  SelectSeq([i \in DOMAIN u |-> IF u[i] = " " /\ i > 1 /\ u[i - 1] = " " THEN "" ELSE u[i]],
                  LAMBDA c : c # "")

search_name(name) == CollapseSpaces(Strip(StrUpper(name)))

\* lines 50-78: rows without a name are dropped, search_name is added; a
\* missing required column raises ValueError
normalize_dataframe(file) ==
    IF ~file.required_columns
    THEN [outcome |-> "ValueError", data |-> None]
    ELSE [outcome |-> "returned",
          data |-> Some([k \in DOMAIN SelectSeq(file.rows, LAMBDA r : r.name # <<>>) |->
                            LET r == SelectSeq(file.rows, LAMBDA x : x.name # <<>>)[k]
                            IN  [name |-> r.name, search_name |-> search_name(r.name)]])]

\* lines 101-114: the local variable path after it is resolved; None stands
\* for FileNotFoundError
ResolvedPath(path) ==
    IF path = None
    THEN (IF s_file = None THEN None ELSE Some("latest_file"))
    ELSE (IF s_file # None /\ path = Some("sample_file") THEN path ELSE None)

\* line 125: "if path is None" reads the local variable, which lines 104
\* and 106-112 have set to the file that is read
CachesResult(path) == ResolvedPath(path) = None

\* lines 96-131: the result of load(path), whether the file was read, and
\* the cache afterwards
load(path) ==
    IF s_cache # None /\ path = None
    THEN [outcome |-> "returned", data |-> s_cache, read |-> FALSE, cache |-> s_cache]
    ELSE IF ResolvedPath(path) = None
    THEN [outcome |-> "FileNotFoundError", data |-> None, read |-> FALSE, cache |-> s_cache]
    ELSE LET df == normalize_dataframe(Val(s_file))
         IN  [outcome |-> df.outcome, data |-> df.data, read |-> TRUE,
              cache |-> IF df.outcome = "returned" /\ CachesResult(path)
                        THEN df.data ELSE s_cache]

SancInit ==
    /\ s_file \in {None} \cup {Some(f) : f \in SanctionFiles}
    /\ s_cache = None
    /\ s_log = <<>>
    /\ NormIdle
    /\ ParseIdle
    /\ KycIdle
    /\ DateIdle
    /\ CmpIdle
    /\ ExtIdle

Load ==
    /\ Len(s_log) < MaxCalls
    /\ \E path \in PathArgs :
          /\ s_cache' = load(path).cache
          /\ s_log' = Append(s_log, [op |-> "load", path |-> path,
                                      outcome |-> load(path).outcome,
                                      data |-> load(path).data,
                                      read |-> load(path).read])
    /\ UNCHANGED <<s_file, norm_vars, parse_vars, kyc_vars, date_vars, cmp_vars, ext_vars>>

\* lines 133-137
ClearCache ==
    /\ Len(s_log) < MaxCalls
    /\ s_cache' = None
    /\ s_log' = Append(s_log, [op |-> "clear_cache", path |-> None, outcome |-> "returned",
                                data |-> None, read |-> FALSE])
    /\ UNCHANGED <<s_file, norm_vars, parse_vars, kyc_vars, date_vars, cmp_vars, ext_vars>>

SancNext == Load \/ ClearCache

SpecSanctions == SancInit /\ [][SancNext]_vars

(***************************************************************************)
(* Parser runs: a TD3 text is encoded from field values, some characters   *)
(* are changed (OCR noise), and parse_mrz is applied                       *)
(***************************************************************************)
MaxChanges == 1

ParseFieldSets ==
    [document_type   : {<<"P">>, <<"P", "D">>},
     country_code    : {<<"U", "S", "A">>},
     surname         : {<<"S", "M", "I", "T", "H">>, <<"V", "A", "N", " ", "D", "I", "J", "K">>},
     given_names     : {<<"J", "O", "H", "N">>, <<"A", "N", "N", "A", " ", "M", "A", "R", "I", "A">>},
     document_number : {<<"L", "8", "9", "8", "9", "0", "2", "C", "3">>, <<"A", "B", "1", "2">>},
     nationality     : {<<"U", "S", "A">>},
     birth_date      : {<<"6", "9", "0", "8", "0", "6">>},
     sex             : {<<"F">>},
     expiry_date     : {<<"9", "4", "0", "6", "2", "3">>, <<"3", "0", "0", "1", "0", "1">>},
     optional_data   : {<<>>, <<"Z", "E", "1", "8", "4", "2", "2", "6", "B">>}]

\* positions of the text that noise may change: the five check digits, the
\* first character of the document number, of the birth date and of line 1
CheckDigitPositions == {TD3LineLength + 1 + k : k \in {10, 20, 28, 43, 44}}

NoisePositions == CheckDigitPositions \cup {TD3LineLength + 1 + k : k \in {1, 14}} \cup {1}

NoiseChars == {"8", "A"}

ParseInit ==
    /\ p_pc = "fields"
    /\ p_fields \in {Some(f) : f \in ParseFieldSets}
    /\ p_text = <<>>
    /\ p_data = None
    /\ p_changed = 0
    /\ NormIdle
    /\ KycIdle
    /\ DateIdle
    /\ CmpIdle
    /\ SancIdle
    /\ ExtIdle

Encode ==
    /\ p_pc = "fields"
    /\ p_text' = EncodeTD3(Val(p_fields))
    /\ p_pc' = "text"
    /\ UNCHANGED <<p_fields, p_data, p_changed, norm_vars, kyc_vars, aux_vars>>

ChangeChar ==
    /\ p_pc = "text"
    /\ p_changed < MaxChanges
    /\ \E i \in NoisePositions, c \in NoiseChars :
          /\ p_text[i] # c
          /\ p_text' = [p_text EXCEPT ![i] = c]
    /\ p_changed' = p_changed + 1
    /\ UNCHANGED <<p_pc, p_fields, p_data, norm_vars, kyc_vars, aux_vars>>

\* the single-line form of the text (no newline) is parsed instead
ParseSingleLine ==
    /\ p_pc = "text"
    /\ p_data' = Some(parse_mrz(TD3Line1(p_text) \o TD3Line2(p_text)))
    /\ p_pc' = "parsed_single"
    /\ UNCHANGED <<p_fields, p_text, p_changed, norm_vars, kyc_vars, aux_vars>>

Parse ==
    /\ p_pc = "text"
    /\ p_data' = Some(parse_mrz(p_text))
    /\ p_pc' = "parsed"
    /\ UNCHANGED <<p_fields, p_text, p_changed, norm_vars, kyc_vars, aux_vars>>

ParseNext == Encode \/ ChangeChar \/ Parse \/ ParseSingleLine

SpecParse == ParseInit /\ [][ParseNext]_vars

(***************************************************************************)
(* extract_mrz_from_image and try_extract_mrz_at_orientation               *)
(***************************************************************************)
Orientations == <<0, 90, 180, 270>>

\* what mrz_detect.main does on the rotated image: it returns a region, it
\* returns None, or it (or the rotation, or the temporary file) raises
LocatorOutcomes == {"region", "none", "raises"}

\* the except clause turns an exception into None
try_extract_mrz_at_orientation(orientation, outcome) ==
    IF outcome = "region" THEN Some([orientation |-> orientation]) ELSE None

\* the loop returns at the first region and ends after the last orientation
LoopEndsNever(found, tried) == tried >= Len(Orientations)

LoopEnds(found, tried) == found # None \/ tried >= Len(Orientations)

(***************************************************************************)
(* validate_document_ocr (app/core/ocr.py)                                 *)
(***************************************************************************)
IsAlpha(c) == c \in Upper \cup Lower

\* line.upper().replace(" ", "").replace("\n", "").strip(), empty lines dropped
CleanLine(line) == Strip(RemoveChar(RemoveChar(StrUpper(line), " "), "\n"))

CleanLines(lines) ==
    SelectSeq([k \in DOMAIN lines |-> CleanLine(lines[k])], LAMBDA l : l # <<>>)

RealignFirstLetter(cleaned_lines) ==
    IF cleaned_lines # <<>> /\ Len(cleaned_lines[1]) >= 1 /\ IsAlpha(cleaned_lines[1][1])
    THEN [cleaned_lines EXCEPT ![1] = <<cleaned_lines[1][1], "<">> \o Tail(cleaned_lines[1])]
    ELSE cleaned_lines

\* a '<' is inserted after the first character when the first four
\* characters of the first line are letters
Realign(cleaned_lines) ==
    IF cleaned_lines # <<>> /\ Len(cleaned_lines[1]) >= 4
       /\ \A k \in 1..4 : IsAlpha(cleaned_lines[1][k])
    THEN [cleaned_lines EXCEPT ![1] = <<cleaned_lines[1][1], "<">> \o Tail(cleaned_lines[1])]
    ELSE cleaned_lines

\* mrz_text_single after fix_ocr_angle_brackets and the padding of line 486
SingleLineForm(cleaned_lines) ==
    LET fixed == fix_ocr_angle_brackets(Concat(cleaned_lines), TargetLength)
    IN  IF Len(fixed) >= TargetLength THEN fixed
        ELSE fixed \o Fill("<", TargetLength - Len(fixed))

\* mrz_text: two lines of 44 characters
TwoLineForm(single) ==
    Slice(single, 0, TD3LineLength) \o <<"\n">> \o Slice(single, TD3LineLength, TargetLength)

VerdictNoMrz ==
    [valid |-> FALSE, mrz_data |-> None,
     error |-> Some("Could not extract MRZ from document"),
     details |-> <<<<"MRZ extraction failed">>>>]

VerdictReaderFailed ==
    [valid |-> FALSE, mrz_data |-> None,
     error |-> Some("OCR initialization failed"),
     details |-> <<<<"OCR reader initialization failed">>>>]

VerdictReadFailed ==
    [valid |-> FALSE, mrz_data |-> None,
     error |-> Some("OCR text extraction failed"),
     details |-> <<<<"OCR text extraction failed">>>>]

VerdictNoText ==
    [valid |-> FALSE, mrz_data |-> None,
     error |-> Some("No text extracted from MRZ"),
     details |-> <<<<"OCR could not read MRZ text">>>>]

VerdictParseFailed(data) ==
    [valid |-> FALSE, mrz_data |-> Some(data),
     error |-> Some(data.error),
     details |-> <<<<"MRZ parsing failed: ", data.error>>>>]

FinalVerdictChecksumOnly(data, expiry) ==
    [valid |-> data.valid_composite,
     mrz_data |-> Some(data),
     expiry_validation |-> Some(expiry),
     error |-> IF data.valid_composite THEN None
               ELSE Some("Document validation issues found"),
     details |-> <<<<"MRZ extraction successful">>>>]

FinalVerdictAlwaysValid(data, expiry) ==
    [valid |-> TRUE,
     mrz_data |-> Some(data),
     expiry_validation |-> Some(expiry),
     error |-> None,
     details |-> <<<<"MRZ extraction successful">>>>]

\* lines 521-553: valid is checksum_valid and expiry_validation["valid"]
FinalVerdict(data, expiry) ==
    LET checksum_valid == data.valid_composite
    IN  [valid |-> checksum_valid /\ expiry.valid,
         mrz_data |-> Some(data),
         expiry_validation |-> Some(expiry),
         error |-> IF checksum_valid /\ expiry.valid THEN None
                   ELSE Some("Document validation issues found"),
         details |->
             <<<<"MRZ extraction successful">>,
               <<"OCR text extraction successful">>,
               <<"MRZ parsing successful">>,
               IF checksum_valid THEN <<"MRZ checksums validated">>
               ELSE <<"MRZ checksum validation failed (may be due to OCR errors)">>,
               IF expiry.valid
               THEN <<"Document expiry date valid: ", expiry.expiry_date_formatted>>
               ELSE <<"Document expired: ", expiry.expiry_date_formatted>>>>]

(***************************************************************************)
(* KYCService.process_kyc (app/services/kyc_service.py)                    *)
(***************************************************************************)
\* str.split(): the tokens in order
Split(s) ==
    LET toks == Tokens(s)
    IN  [k \in 1..Cardinality(toks) |->
            (CHOOSE t \in toks : Cardinality({u \in toks : u[1] < t[1]}) = k - 1)[2]]

\* " ".join(parts)
JoinSpace(parts) ==
    Concat([k \in DOMAIN parts |-> IF k = 1 THEN parts[k] ELSE <<" ">> \o parts[k]])

\* lines 91-100: the claimed record given to the comparison
RequestDocData(req) ==
    LET name_parts == Split(req.full_name)
    IN  [document_number |-> req.document_number,
         first_name      |-> IF Len(name_parts) > 0 THEN name_parts[1] ELSE <<>>,
         last_name       |-> IF Len(name_parts) > 1 THEN JoinSpace(Tail(name_parts))
                             ELSE IF Len(name_parts) > 0 THEN name_parts[1] ELSE <<>>,
         date_of_birth   |-> req.dob,
         nationality     |-> req.nationality,
         expiry_date     |-> req.expiry_date,
         issuing_country |-> req.issuing_country]

\* lines 86-102: the comparison runs when mrz_data exists and holds no error
DataComparison(validation, req) ==
    IF validation.mrz_data # None /\ ~IsError(Val(validation.mrz_data))
    THEN Some(compare_mrz_with_request_data(Val(validation.mrz_data), RequestDocData(req)))
    ELSE None

\* lines 130-186
RiskScore(validation, comparison, face_matched) ==
    LET expired == "expiry_validation" \in DOMAIN validation
                   /\ Val(validation.expiry_validation).is_expired = Some(TRUE)
        raw == (IF expired THEN 30 ELSE 0)
               + (IF ~validation.valid THEN 50 ELSE 0)
               + (IF comparison # None /\ ~Val(comparison).all_match
                  THEN Val(comparison).mismatch_count * 10 ELSE 0)
               + (IF ~face_matched THEN 50 ELSE 0)
    IN  IF raw > 100 THEN 100 ELSE raw

RiskLevel(score) == IF score >= 70 THEN "high" ELSE IF score >= 30 THEN "medium" ELSE "low"

KycResultMismatchInvalidates(validation, comparison, face_matched) ==
    [status |-> "completed",
     risk_score |-> RiskScore(validation, comparison, face_matched),
     risk_level |-> RiskLevel(RiskScore(validation, comparison, face_matched)),
     document_verified |-> validation.valid
                           /\ (comparison = None \/ Val(comparison).all_match),
     face_match |-> face_matched,
     document_validation |-> validation,
     data_comparison |-> comparison]

\* lines 211-246: document_verified is the verdict's valid
KycResult(validation, comparison, face_matched) ==
    [status |-> "completed",
     risk_score |-> RiskScore(validation, comparison, face_matched),
     risk_level |-> RiskLevel(RiskScore(validation, comparison, face_matched)),
     document_verified |-> validation.valid,
     face_match |-> face_matched,
     document_validation |-> validation,
     data_comparison |-> comparison]

(***************************************************************************)
(* Inputs of a KYC request                                                 *)
(***************************************************************************)
GoodDocumentNumber == <<"C", "8", "9", "8", "9", "0", "2", "C", "3">>

GoodFields(expiry_date) ==
    [SampleFields EXCEPT !.document_number = GoodDocumentNumber,
                         !.expiry_date = expiry_date]

LinesOf(f) ==
    <<EncodeLine1(f.document_type, f.country_code, f.surname, f.given_names),
      EncodeLine2(f.document_number, f.nationality, f.birth_date, f.sex,
                  f.expiry_date, f.optional_data)>>

FutureExpiry == <<"9", "4", "0", "6", "2", "3">>

PastExpiry == <<"2", "5", "0", "1", "0", "1">>

MalformedExpiry == <<"9", "4", "1", "3", "4", "1">>

\* what reader.readtext returns for the located region
OcrLineSets ==
    LET good == LinesOf(GoodFields(FutureExpiry))
    IN  { good,
          LinesOf(GoodFields(PastExpiry)),
          LinesOf(GoodFields(MalformedExpiry)),
          \* a wrong birth-date check digit
          <<good[1], [good[2] EXCEPT ![20] = "7"]>>,
          \* the sample of the specification with '<' read as '-'
          <<Dashed(SampleLine1, {2, 11, 30}), Dashed(SampleLine2, {29, 40})>>,
          \* lower case, a space inside a line, '<' read as '-'
          <<StrLower(SubSeq(good[1], 1, 10)) \o <<" ">> \o SubSeq(good[1], 11, 44),
            Dashed(good[2], {30, 31})>>,
          \* the filler of the document type is missing
          <<<<"P">> \o SubSeq(good[1], 3, 44), good[2]>>,
          \* line 1 read as two pieces
          <<SubSeq(good[1], 1, 20), SubSeq(good[1], 21, 44), good[2]>>,
          \* no text, blank text, text that is no MRZ
          <<>>,
          <<<<" ">>>>,
          <<<<"A", "B">>>> }

OcrOutputs == {[raised |-> TRUE, lines |-> <<>>]} \cup {[raised |-> FALSE, lines |-> l] : l \in OcrLineSets}

\* datetime.now() when the expiry date is validated
Todays == {[date |-> <<2025, 1, 1>>, time |-> 0], [date |-> <<2026, 11, 2>>, time |-> 43200]}

Requests ==
    { \* the data of the good document
      [full_name |-> <<"J", "o", "h", "n", " ", "S", "m", "i", "t", "h">>,
       dob |-> <<"2", "0", "6", "9", "-", "0", "8", "-", "0", "6">>,
       nationality |-> <<"U", "S", "A">>,
       document_number |-> GoodDocumentNumber,
       expiry_date |-> <<"2", "0", "9", "4", "-", "0", "6", "-", "2", "3">>,
       issuing_country |-> <<"U", "S", "A">>],
      \* another person
      [full_name |-> <<"M", "A", "R", "Y", " ", "A", "N", "N", " ", "J", "O", "N", "E", "S">>,
       dob |-> <<"1", "9", "6", "9", "-", "0", "8", "-", "0", "6">>,
       nationality |-> <<"U", "S">>,
       document_number |-> <<"X", "1", "2", "3">>,
       expiry_date |-> <<>>,
       issuing_country |-> <<"E", "G", "Y">>],
      \* nothing claimed
      [full_name |-> <<>>, dob |-> <<>>, nationality |-> <<>>, document_number |-> <<>>,
       expiry_date |-> <<>>, issuing_country |-> <<>>] }

(***************************************************************************)
(* One KYC request, stage by stage                                         *)
(***************************************************************************)
Init ==
    /\ pc = "locate"
    /\ request \in {Some(r) : r \in Requests}
    /\ attempts = <<>>
    /\ mrz_image = None
    /\ results = None
    /\ mrz_text = <<>>
    /\ mrz_text_single = <<>>
    /\ mrz_data = None
    /\ expiry_validation = None
    /\ document_validation = None
    /\ data_comparison = None
    /\ result = None
    /\ calls = <<>>
    /\ NormIdle
    /\ ParseIdle
    /\ DateIdle
    /\ CmpIdle
    /\ SancIdle
    /\ ExtIdle

\* one iteration of the loop of extract_mrz_from_image, and lines 412-418
\* when the loop ends without a region
Locate ==
    /\ pc = "locate"
    /\ \E outcome \in LocatorOutcomes :
          LET orientation == Orientations[Len(attempts) + 1]
              found == try_extract_mrz_at_orientation(orientation, outcome)
          IN  /\ attempts' = Append(attempts, [orientation |-> orientation, outcome |-> outcome])
              /\ calls' = Append(calls, <<"locate", orientation>>)
              /\ mrz_image' = found
              /\ IF ~LoopEnds(found, Len(attempts) + 1)
                 THEN pc' = "locate" /\ UNCHANGED document_validation
                 ELSE IF found = None
                      THEN pc' = "validated" /\ document_validation' = Some(VerdictNoMrz)
                      ELSE pc' = "reader" /\ UNCHANGED document_validation
    /\ UNCHANGED <<request, results, mrz_text, mrz_text_single, mrz_data,
                   expiry_validation, data_comparison, result, norm_vars, parse_vars, aux_vars>>

\* lines 420-430: easyocr.Reader is constructed, or fails
InitReader ==
    /\ pc = "reader"
    /\ calls' = Append(calls, <<"reader">>)
    /\ \E ok \in BOOLEAN :
          IF ok THEN pc' = "read" /\ UNCHANGED document_validation
          ELSE pc' = "validated" /\ document_validation' = Some(VerdictReaderFailed)
    /\ UNCHANGED <<request, attempts, mrz_image, results, mrz_text, mrz_text_single, mrz_data,
                   expiry_validation, data_comparison, result, norm_vars, parse_vars, aux_vars>>

ReadTextParsesEmpty ==
    /\ pc = "read"
    /\ \E out \in OcrOutputs :
          LET cleaned_lines == Realign(CleanLines(out.lines))
              single == SingleLineForm(cleaned_lines)
          IN  IF out.raised
              THEN /\ pc' = "validated"
                   /\ results' = None
                   /\ document_validation' = Some(VerdictReadFailed)
                   /\ calls' = Append(calls, <<"readtext">>)
                   /\ UNCHANGED <<mrz_text, mrz_text_single>>
              ELSE /\ pc' = "parse"
                   /\ results' = Some(out.lines)
                   /\ mrz_text_single' = single
                   /\ mrz_text' = TwoLineForm(single)
                   /\ calls' = calls \o <<<<"readtext">>, <<"normalize">>>>
                   /\ UNCHANGED document_validation
    /\ UNCHANGED <<request, attempts, mrz_image, mrz_data, expiry_validation,
                   data_comparison, result, norm_vars, parse_vars, aux_vars>>

\* lines 432-503: OCR, cleaning, realignment and normalisation
ReadText ==
    /\ pc = "read"
    /\ \E out \in OcrOutputs :
          LET cleaned_lines == Realign(CleanLines(out.lines))
              single == SingleLineForm(cleaned_lines)
          IN  IF out.raised
              THEN /\ pc' = "validated"
                   /\ results' = None
                   /\ document_validation' = Some(VerdictReadFailed)
                   /\ calls' = Append(calls, <<"readtext">>)
                   /\ UNCHANGED <<mrz_text, mrz_text_single>>
              ELSE IF cleaned_lines = <<>>
              THEN /\ pc' = "validated"
                   /\ results' = Some(out.lines)
                   /\ document_validation' = Some(VerdictNoText)
                   /\ calls' = Append(calls, <<"readtext">>)
                   /\ UNCHANGED <<mrz_text, mrz_text_single>>
              ELSE /\ pc' = "parse"
                   /\ results' = Some(out.lines)
                   /\ mrz_text_single' = single
                   /\ mrz_text' = TwoLineForm(single)
                   /\ calls' = calls \o <<<<"readtext">>, <<"normalize">>>>
                   /\ UNCHANGED document_validation
    /\ UNCHANGED <<request, attempts, mrz_image, mrz_data, expiry_validation,
                   data_comparison, result, norm_vars, parse_vars, aux_vars>>

ParseSingleLineFirst ==
    /\ pc = "parse"
    /\ mrz_data' = Some(parse_mrz(mrz_text_single))
    /\ calls' = Append(calls, <<"parse", "single_line">>)
    /\ pc' = IF IsError(parse_mrz(mrz_text_single)) THEN "parse_single" ELSE "expiry"
    /\ UNCHANGED <<request, attempts, mrz_image, results, mrz_text, mrz_text_single,
                   expiry_validation, document_validation, data_comparison, result,
                   norm_vars, parse_vars, aux_vars>>

\* line 506: the two-line text is parsed first
ParseMultiLine ==
    /\ pc = "parse"
    /\ mrz_data' = Some(parse_mrz(mrz_text))
    /\ calls' = Append(calls, <<"parse", "two_line">>)
    /\ pc' = IF IsError(parse_mrz(mrz_text)) THEN "parse_single" ELSE "expiry"
    /\ UNCHANGED <<request, attempts, mrz_image, results, mrz_text, mrz_text_single,
                   expiry_validation, document_validation, data_comparison, result,
                   norm_vars, parse_vars, aux_vars>>

\* lines 509-519: the single-line text is parsed when the first parse failed
RetrySingleLine ==
    /\ pc = "parse_single"
    /\ mrz_data' = Some(parse_mrz(mrz_text_single))
    /\ calls' = Append(calls, <<"parse", "single_line">>)
    /\ IF IsError(parse_mrz(mrz_text_single))
       THEN /\ pc' = "validated"
            /\ document_validation' = Some(VerdictParseFailed(parse_mrz(mrz_text_single)))
       ELSE pc' = "expiry" /\ UNCHANGED document_validation
    /\ UNCHANGED <<request, attempts, mrz_image, results, mrz_text, mrz_text_single,
                   expiry_validation, data_comparison, result, norm_vars, parse_vars, aux_vars>>

\* lines 521-553: expiry validation and the verdict
ValidateExpiry ==
    /\ pc = "expiry"
    /\ \E today \in Todays :
          LET expiry == validate_expiry_date(Some(Val(mrz_data).expiry_date), today)
          IN  /\ expiry_validation' = Some(expiry)
              /\ document_validation' = Some(FinalVerdict(Val(mrz_data), expiry))
    /\ calls' = Append(calls, <<"validate_expiry">>)
    /\ pc' = "validated"
    /\ UNCHANGED <<request, attempts, mrz_image, results, mrz_text, mrz_text_single, mrz_data,
                   data_comparison, result, norm_vars, parse_vars, aux_vars>>

\* process_kyc lines 85-102
CompareData ==
    /\ pc = "validated"
    /\ data_comparison' = DataComparison(Val(document_validation), Val(request))
    /\ calls' = IF data_comparison' # None THEN Append(calls, <<"compare">>) ELSE calls
    /\ pc' = "face"
    /\ UNCHANGED <<request, attempts, mrz_image, results, mrz_text, mrz_text_single, mrz_data,
                   expiry_validation, document_validation, result, norm_vars, parse_vars, aux_vars>>

\* process_kyc lines 104-251: face matching, risk score and the response
Respond ==
    /\ pc = "face"
    /\ \E face_matched \in BOOLEAN :
          result' = Some(KycResult(Val(document_validation), data_comparison, face_matched))
    /\ pc' = "done"
    /\ UNCHANGED <<request, attempts, mrz_image, results, mrz_text, mrz_text_single, mrz_data,
                   expiry_validation, document_validation, data_comparison, calls,
                   norm_vars, parse_vars, aux_vars>>

Next ==
    \/ Locate
    \/ InitReader
    \/ ReadText
    \/ ParseMultiLine
    \/ RetrySingleLine
    \/ ValidateExpiry
    \/ CompareData
    \/ Respond

Spec == Init /\ [][Next]_vars

(***************************************************************************)
(* update_sanctions_lists (scripts/update_sanctions.py): four downloads,   *)
(* the conversions, the combine step and the exit code                     *)
(***************************************************************************)
Sources == <<"un", "ofac", "uk", "eu">>

DownloadStep == [un |-> "download_un", ofac |-> "download_ofac",
                 uk |-> "download_uk", eu |-> "download_eu"]

ConvertStep == [un |-> "convert_un", ofac |-> "convert_ofac",
                uk |-> "convert_uk", eu |-> "convert_eu"]

ConversionScript == [un |-> "convert_un_to_csv.py", ofac |-> "convert_ofac_to_csv.py",
                     uk |-> "convert_uk_to_csv.py", eu |-> "convert_eu_to_csv.py"]

\* the statements of update_sanctions_lists in order
UpdateSteps == <<"download_un", "download_ofac", "download_uk", "download_eu",
                 "convert_un", "convert_ofac", "convert_uk", "convert_eu",
                 "combine", "summary", "done">>

StepAfter(step) == UpdateSteps[(CHOOSE i \in DOMAIN UpdateSteps : UpdateSteps[i] = step) + 1]

\* what subprocess.run does with a script; "not_found" is a script that is
\* not on disk
ScriptOutcomes == {"completed", "not_found", "timed_out", "failed"}

\* lines 318-346
run_conversion_script(outcome) == outcome = "completed"

\* dict.get(key, False)
GetFlag(d, key) == IF key \in DOMAIN d THEN d[key] ELSE FALSE

CriticalSuccessAllSources(results_, conversion_results) ==
    \A s \in Range(Sources) : GetFlag(results_, s) /\ GetFlag(conversion_results, s)

\* lines 461-462
CriticalSuccess(results_, conversion_results) ==
    \A s \in {"un", "ofac"} : GetFlag(results_, s) /\ GetFlag(conversion_results, s)

UpdInit ==
    /\ u_pc = "download_un"
    /\ u_results = Some([s \in Range(Sources) |-> FALSE])
    /\ u_conversion_results = Some(<<>>)
    /\ u_combine_success = None
    /\ u_scripts = <<>>
    /\ u_exit = None
    /\ NormIdle
    /\ ParseIdle
    /\ KycIdle
    /\ DateIdle
    /\ CmpIdle
    /\ SancIdle
    /\ ApiIdle
    /\ DetIdle
    /\ OcrIdle
    /\ RlIdle

\* lines 373-399
Download ==
    /\ \E source \in Range(Sources), success \in BOOLEAN :
          /\ u_pc = DownloadStep[source]
          /\ u_results' = Some([Val(u_results) EXCEPT ![source] = success])
    /\ u_pc' = StepAfter(u_pc)
    /\ UNCHANGED <<u_conversion_results, u_combine_success, u_scripts, u_exit>>
    /\ UNCHANGED <<norm_vars, parse_vars, kyc_vars, date_vars, cmp_vars, sanc_vars,
                   api_vars, det_vars, ocr_vars, rl_vars>>

\* lines 406-430
Convert ==
    /\ \E source \in Range(Sources), outcome \in ScriptOutcomes :
          LET converted == IF Val(u_results)[source]
                           THEN run_conversion_script(outcome) ELSE FALSE
              old == Val(u_conversion_results)
          IN  /\ u_pc = ConvertStep[source]
              /\ u_conversion_results' =
                     Some([s \in DOMAIN old \cup {source} |->
                              IF s = source THEN converted ELSE old[s]])
              /\ u_scripts' = IF Val(u_results)[source]
                              THEN Append(u_scripts, ConversionScript[source])
                              ELSE u_scripts
    /\ u_pc' = StepAfter(u_pc)
    /\ UNCHANGED <<u_results, u_combine_success, u_exit>>
    /\ UNCHANGED <<norm_vars, parse_vars, kyc_vars, date_vars, cmp_vars, sanc_vars,
                   api_vars, det_vars, ocr_vars, rl_vars>>

\* line 437
Combine ==
    /\ u_pc = "combine"
    /\ \E outcome \in ScriptOutcomes :
          u_combine_success' = Some(run_conversion_script(outcome))
    /\ u_scripts' = Append(u_scripts, "combine_sanctions.py")
    /\ u_pc' = StepAfter(u_pc)
    /\ UNCHANGED <<u_results, u_conversion_results, u_exit>>
    /\ UNCHANGED <<norm_vars, parse_vars, kyc_vars, date_vars, cmp_vars, sanc_vars,
                   api_vars, det_vars, ocr_vars, rl_vars>>

\* lines 460-473
ExitCode ==
    /\ u_pc = "summary"
    /\ u_exit' = Some(IF CriticalSuccess(Val(u_results), Val(u_conversion_results))
                         /\ Val(u_combine_success)
                      THEN 0 ELSE 1)
    /\ u_pc' = StepAfter(u_pc)
    /\ UNCHANGED <<u_results, u_conversion_results, u_combine_success, u_scripts>>
    /\ UNCHANGED <<norm_vars, parse_vars, kyc_vars, date_vars, cmp_vars, sanc_vars,
                   api_vars, det_vars, ocr_vars, rl_vars>>

UpdNext == Download \/ Convert \/ Combine \/ ExitCode

SpecUpdate == UpdInit /\ [][UpdNext]_vars

(***************************************************************************)
(* One request to /api/v1/aml/screen: log_requests_middleware              *)
(* (app/middleware/logging_middleware.py) around screen_aml                *)
(* (app/routes/aml.py), which writes the audit entry with log_audit_event  *)
(* (app/core/logger.py)                                                    *)
(***************************************************************************)
\* the X-Request-ID header of the client: absent, empty, or a value
ClientHeaders ==
    {None, Some(<<>>), Some(Str(<<"t", "e", "s", "t", "_", "a", "m", "l", "_", "1">>)),
     Some(Str(<<"r", "e", "q", "_", "0", "0", "0", "0", "0", "1">>))}

\* str(id(request))[-6:], six decimal digits
ObjectIdDigits ==
    {Str(<<"0", "0", "0", "0", "0", "1">>), Str(<<"1", "4", "0", "2", "1", "6">>),
     Str(<<"5", "5", "8", "7", "2", "0">>), Str(<<"9", "0", "3", "4", "8", "8">>),
     Str(<<"1", "2", "3", "4", "5", "6">>)}

\* str(uuid.uuid4())[:8], eight hexadecimal digits
UuidPrefixes ==
    {Str(<<"0", "0", "0", "0", "0", "0", "0", "1">>), Str(<<"3", "f", "2", "a", "9", "c", "1", "e">>),
     Str(<<"1", "4", "0", "2", "1", "6", "0", "0">>), Str(<<"d", "e", "a", "d", "b", "e", "e", "f">>),
     Str(<<"1", "2", "3", "4", "5", "6", "7", "8">>)}

\* f"req_{...}"
ReqId(suffix) == Str(<<"r", "e", "q", "_">>) \o suffix

\* middleware line 12: request.headers.get('X-Request-ID') or f"req_..."
MiddlewareRequestId(header, digits) ==
    IF header # None /\ Val(header) # <<>> THEN Val(header) ELSE ReqId(digits)

\* route line 25: request.headers.get('X-Request-ID', f"req_...")
RouteRequestId(header, prefix) ==
    IF header # None THEN Val(header) ELSE ReqId(prefix)

\* route lines 63-66: dict(request.headers) with the key 'X-Request-ID'
\* added, made into Headers; header names are lower-cased there, so a
\* header of the client stays in front of the added one
HeadersWithId(header, request_id) ==
    (IF header = None THEN <<>> ELSE <<<<"x-request-id", Val(header)>>>>)
        \o <<<<"x-request-id", request_id>>>>

\* Headers.get: the first value under the name, or None
HeaderGet(headers, name) ==
    LET found == {i \in DOMAIN headers : headers[i][1] = name}
    IN  IF found = {} THEN None
        ELSE Some(headers[CHOOSE i \in found : \A j \in found : i <= j][2])

\* logger.py lines 184-202, as called at route lines 69-84 and 109-119
log_audit_event(event_type, status, request_headers) ==
    [event_type |-> event_type, status |-> status,
     request_id |-> HeaderGet(request_headers, "x-request-id")]

ApiInit ==
    /\ a_pc = "middleware"
    /\ a_header \in ClientHeaders
    /\ a_request_id = None
    /\ a_route_id = None
    /\ a_audit = None
    /\ a_response = None
    /\ NormIdle
    /\ ParseIdle
    /\ KycIdle
    /\ DateIdle
    /\ CmpIdle
    /\ SancIdle
    /\ UpdIdle
    /\ DetIdle
    /\ OcrIdle
    /\ RlIdle

\* middleware lines 12-38: the request ID is fixed, then call_next
MiddlewareBefore ==
    /\ a_pc = "middleware"
    /\ \E digits \in ObjectIdDigits :
          a_request_id' = Some(MiddlewareRequestId(a_header, digits))
    /\ a_pc' = "route"
    /\ UNCHANGED <<a_header, a_route_id, a_audit, a_response>>
    /\ UNCHANGED <<norm_vars, parse_vars, kyc_vars, date_vars, cmp_vars, sanc_vars,
                   upd_vars, det_vars, ocr_vars, rl_vars>>

\* route lines 25-128: the screening succeeds or raises; either way the
\* audit entry is written with the request ID of the route
ScreenAml ==
    /\ a_pc = "route"
    /\ \E prefix \in UuidPrefixes, raised \in BOOLEAN :
          LET request_id == RouteRequestId(a_header, prefix)
          IN  /\ a_route_id' = Some(request_id)
              /\ a_audit' = Some(log_audit_event("aml_screening",
                                                 IF raised THEN "error" ELSE "success",
                                                 HeadersWithId(a_header, request_id)))
    /\ a_pc' = "respond"
    /\ UNCHANGED <<a_header, a_request_id, a_response>>
    /\ UNCHANGED <<norm_vars, parse_vars, kyc_vars, date_vars, cmp_vars, sanc_vars,
                   upd_vars, det_vars, ocr_vars, rl_vars>>

\* middleware lines 52-68
MiddlewareAfter ==
    /\ a_pc = "respond"
    /\ a_response' = Some([x_request_id |-> Val(a_request_id),
                           status_code |-> IF Val(a_audit).status = "error" THEN 500 ELSE 200])
    /\ a_pc' = "done"
    /\ UNCHANGED <<a_header, a_request_id, a_route_id, a_audit>>
    /\ UNCHANGED <<norm_vars, parse_vars, kyc_vars, date_vars, cmp_vars, sanc_vars,
                   upd_vars, det_vars, ocr_vars, rl_vars>>

ApiNext == MiddlewareBefore \/ ScreenAml \/ MiddlewareAfter

SpecApi == ApiInit /\ [][ApiNext]_vars

(***************************************************************************)
(* MRZ locator (app/core/mrz_detect.py, main): from the bounding           *)
(* rectangles of the contours of the thresholded image to the crop         *)
(* rectangle.  A rectangle is [x, y, w, h] in pixels, y growing downwards; *)
(* an image is [W, H].  A fraction a/b is the pair <<a, b>>.               *)
(***************************************************************************)
\* contours in one image
MaxContours == 3

Box(x, y, w, h) == [x |-> x, y |-> y, w |-> w, h |-> h]

\* part / float(whole) > a/b, in integers
FractionOver(part, whole, fraction) == part * fraction[2] > fraction[1] * whole

InBottomHalfCentre(box, img) == 2 * box.y + box.h > img.H

\* line 86: y > (H / 2), y the top edge of the bounding rectangle
InBottomHalf(box, img) == 2 * box.y > img.H

\* line 90
IsCandidate(box, img) ==
    FractionOver(box.w, img.W, <<6, 10>>) /\ FractionOver(box.h, img.H, <<1, 100>>)

\* line 98
StrictCriteria(box, img) ==
    /\ FractionOver(box.w, img.W, <<7, 10>>)
    /\ FractionOver(box.h, img.H, <<2, 100>>)
    /\ InBottomHalf(box, img)

\* line 116
LenientCriteria(cand, img) ==
    /\ FractionOver(cand.w, img.W, <<6, 10>>)
    /\ FractionOver(cand.h, img.H, <<15, 1000>>)
    /\ InBottomHalf(cand, img)

\* line 124
VeryLenientCriteria(cand, img) ==
    /\ FractionOver(cand.w, img.W, <<5, 10>>)
    /\ FractionOver(cand.h, img.H, <<1, 100>>)
    /\ InBottomHalf(cand, img)

\* sorted(..., reverse=True), which is stable, by the key x or w or y of a
\* rectangle
SortDescending(boxes, key) ==
    LET rank(i) == Cardinality({j \in DOMAIN boxes :
                        \/ boxes[j][key] > boxes[i][key]
                        \/ boxes[j][key] = boxes[i][key] /\ j < i}) + 1
    IN  [k \in DOMAIN boxes |-> boxes[CHOOSE i \in DOMAIN boxes : rank(i) = k]]

\* line 70: sort_contours(cnts, method="bottom-to-top"), by the y of the
\* bounding rectangle, greatest first
sort_contours(cnts) == SortDescending(cnts, "y")

\* lines 104-108: with the debug flag on, and no line found by the strict
\* criteria, the list of candidates is sorted in place by width, widest first
CandidatesForRelaxation(candidates, strict, debug) ==
    IF debug /\ strict = <<>> /\ candidates # <<>>
    THEN SortDescending(candidates, "w")
    ELSE candidates

\* lines 104-127
Relaxed(candidates, img) ==
    LET lenient == SelectSeq(candidates, LAMBDA cand : LenientCriteria(cand, img))
    IN  IF lenient # <<>> THEN lenient
        ELSE SelectSeq(candidates, LAMBDA cand : VeryLenientCriteria(cand, img))

\* lines 132-147
MrzBox(mrz_lines) ==
    IF Len(mrz_lines) >= 2
    THEN LET line1 == mrz_lines[1]
             line2 == mrz_lines[2]
             min_x == IF line1.x <= line2.x THEN line1.x ELSE line2.x
             min_y == IF line1.y <= line2.y THEN line1.y ELSE line2.y
             max_x == IF line1.x + line1.w >= line2.x + line2.w
                      THEN line1.x + line1.w ELSE line2.x + line2.w
             max_y == IF line1.y + line1.h >= line2.y + line2.h
                      THEN line1.y + line1.h ELSE line2.y + line2.h
         IN  Some(Box(min_x, min_y, max_x - min_x, max_y - min_y))
    ELSE IF Len(mrz_lines) = 1 THEN Some(mrz_lines[1])
    ELSE None

PadBoxUnclamped(box, img) ==
    Box(box.x - (box.w * 3) \div 100, box.y - (box.h * 4) \div 100,
        box.w + 2 * ((box.w * 3) \div 100), box.h + 2 * ((box.h * 4) \div 100))

\* lines 155-163: pX = int(w * 0.03), pY = int(h * 0.04)
PadBox(box, img) ==
    LET pX == (box.w * 3) \div 100
        pY == (box.h * 4) \div 100
        x  == IF box.x - pX > 0 THEN box.x - pX ELSE 0
        y  == IF box.y - pY > 0 THEN box.y - pY ELSE 0
        w  == IF img.W - x < box.w + pX * 2 THEN img.W - x ELSE box.w + pX * 2
        h  == IF img.H - y < box.h + pY * 2 THEN img.H - y ELSE box.h + pY * 2
    IN  Box(x, y, w, h)

\* lines 68-168, the rectangles only
LocateMrz(img, cnts, debug) ==
    LET sorted     == sort_contours(cnts)
        strict     == SelectSeq(sorted, LAMBDA c : StrictCriteria(c, img))
        candidates == SelectSeq(sorted, LAMBDA c : IsCandidate(c, img))
        mrz_lines  == IF strict = <<>> /\ candidates # <<>>
                      THEN Relaxed(CandidatesForRelaxation(candidates, strict, debug), img)
                      ELSE strict
        mrzBox     == MrzBox(mrz_lines)
    IN  [strict |-> strict, candidates |-> candidates, mrz_lines |-> mrz_lines,
         mrzBox |-> mrzBox,
         crop |-> IF mrzBox = None THEN None ELSE Some(PadBox(Val(mrzBox), img))]

\* an image of 200 x 200 pixels and rectangles on either side of every
\* threshold
SquareImage == [W |-> 200, H |-> 200]

SquareBoxes ==
    { Box(0, 190, 200, 5),     \* full width, on the bottom edge
      Box(20, 150, 150, 5),    \* 75% wide
      Box(10, 120, 160, 30),   \* 80% wide and tall
      Box(30, 180, 130, 4),    \* 65% wide, 2% high
      Box(0, 140, 138, 4),     \* 69% wide, 2% high
      Box(0, 110, 140, 5),     \* 70% wide
      Box(30, 165, 130, 3),    \* 65% wide, 1.5% high
      Box(40, 160, 110, 5),    \* 55% wide
      Box(0, 90, 200, 30),     \* top edge in the upper half, centre in the lower
      Box(0, 100, 200, 5),     \* top edge on the middle line
      Box(0, 195, 200, 2),     \* 1% high
      Box(0, 170, 200, 30) }   \* tall, on the bottom edge

\* images of other sizes, each with one rectangle from a grid
ImageSizes == {[W |-> 101, H |-> 75], [W |-> 64, H |-> 48], [W |-> 200, H |-> 200]}

GridBoxes(img) ==
    { b \in { Box(x, y, w, h) : x \in {0, 1, img.W \div 10},
                                y \in {img.H \div 2, img.H \div 2 + 1, (3 * img.H) \div 4},
                                w \in {img.W, img.W - 1, (3 * img.W) \div 4},
                                h \in {img.H \div 10, img.H \div 4, img.H \div 2 - 1} } :
        b.x + b.w <= img.W /\ b.y + b.h <= img.H }

DetInputs ==
    {[img |-> SquareImage, cnts |-> c] :
        c \in UNION {[1..n -> SquareBoxes] : n \in 0..MaxContours}}
    \cup UNION {{[img |-> i, cnts |-> <<b>>] : b \in GridBoxes(i)} : i \in ImageSizes}

DetInit ==
    /\ m_pc = "input"
    /\ \E in \in DetInputs :
          /\ m_image = Some(in.img)
          /\ m_cnts = in.cnts
    /\ m_debug \in BOOLEAN
    /\ m_out = None
    /\ NormIdle
    /\ ParseIdle
    /\ KycIdle
    /\ DateIdle
    /\ CmpIdle
    /\ SancIdle
    /\ UpdIdle
    /\ ApiIdle
    /\ OcrIdle
    /\ RlIdle

Detect ==
    /\ m_pc = "input"
    /\ m_out' = Some(LocateMrz(Val(m_image), m_cnts, m_debug))
    /\ m_pc' = "done"
    /\ UNCHANGED <<m_image, m_cnts, m_debug>>
    /\ UNCHANGED <<norm_vars, parse_vars, kyc_vars, date_vars, cmp_vars, sanc_vars,
                   upd_vars, api_vars, ocr_vars, rl_vars>>

DetNext == Detect

SpecDetect == DetInit /\ [][DetNext]_vars

(***************************************************************************)
(* Realignment runs: the lines read by the OCR engine are cleaned and      *)
(* realigned (validate_document_ocr lines 438-458), and the realignment    *)
(* is applied once more to its own result                                  *)
(***************************************************************************)
\* characters of the first line read
MaxLineLen == 5

RealignAlphabet == {"P", "a", "<", "1", " "}

\* the lines after the first
RealignTails == {<<>>, <<Str(<<"A", "B", "C", "D", "E">>)>>}

RealignInputs ==
    {<<first>> \o rest : first \in SeqsUpTo(RealignAlphabet, MaxLineLen), rest \in RealignTails}

RlInit ==
    /\ r_pc = "input"
    /\ r_in \in RealignInputs
    /\ r_out = <<>>
    /\ r_again = <<>>
    /\ NormIdle
    /\ ParseIdle
    /\ KycIdle
    /\ DateIdle
    /\ CmpIdle
    /\ SancIdle
    /\ UpdIdle
    /\ ApiIdle
    /\ DetIdle
    /\ OcrIdle

\* lines 438-458
CleanAndRealign ==
    /\ r_pc = "input"
    /\ r_out' = Realign(CleanLines(r_in))
    /\ r_pc' = "realigned"
    /\ UNCHANGED <<r_in, r_again>>
    /\ UNCHANGED <<norm_vars, parse_vars, kyc_vars, date_vars, cmp_vars, sanc_vars,
                   upd_vars, api_vars, det_vars, ocr_vars>>

\* lines 448-458 on the realigned lines
RealignAgain ==
    /\ r_pc = "realigned"
    /\ r_again' = Realign(r_out)
    /\ r_pc' = "done"
    /\ UNCHANGED <<r_in, r_out>>
    /\ UNCHANGED <<norm_vars, parse_vars, kyc_vars, date_vars, cmp_vars, sanc_vars,
                   upd_vars, api_vars, det_vars, ocr_vars>>

RlNext == CleanAndRealign \/ RealignAgain

SpecRealign == RlInit /\ [][RlNext]_vars

(***************************************************************************)
(* The OCR engine: get_ocr_reader (app/core/id_ocr.py) called by           *)
(* concurrent callers, and validate_document_ocr (app/core/ocr.py lines    *)
(* 420-430), which builds its own engine.  An engine is numbered by the    *)
(* order of its construction.                                              *)
(***************************************************************************)
\* concurrent callers of get_ocr_reader
MaxCallers == 2

\* engines handed out in one run
MaxUses == 3

Callers == 1..MaxCallers

OcrInit ==
    /\ o_reader = None
    /\ o_built = 0
    /\ o_pc = [t \in Callers |-> "call"]
    /\ o_got = <<>>
    /\ NormIdle
    /\ ParseIdle
    /\ KycIdle
    /\ DateIdle
    /\ CmpIdle
    /\ SancIdle
    /\ UpdIdle
    /\ ApiIdle
    /\ DetIdle
    /\ RlIdle

\* id_ocr.py line 24: if _ocr_reader is None
GetterCheck(t) ==
    /\ o_pc[t] = "call"
    /\ Len(o_got) < MaxUses
    /\ o_pc' = [o_pc EXCEPT ![t] = IF o_reader = None THEN "construct" ELSE "return"]
    /\ UNCHANGED <<o_reader, o_built, o_got>>
    /\ UNCHANGED <<norm_vars, parse_vars, kyc_vars, date_vars, cmp_vars, sanc_vars,
                   upd_vars, api_vars, det_vars, rl_vars>>

\* lines 25-29: easyocr.Reader is built and stored, or raises
GetterConstruct(t) ==
    /\ o_pc[t] = "construct"
    /\ \E ok \in BOOLEAN :
          IF ok
          THEN /\ o_built' = o_built + 1
               /\ o_reader' = Some(o_built + 1)
               /\ o_pc' = [o_pc EXCEPT ![t] = "return"]
          ELSE /\ o_pc' = [o_pc EXCEPT ![t] = "call"]
               /\ UNCHANGED <<o_reader, o_built>>
    /\ UNCHANGED o_got
    /\ UNCHANGED <<norm_vars, parse_vars, kyc_vars, date_vars, cmp_vars, sanc_vars,
                   upd_vars, api_vars, det_vars, rl_vars>>

\* line 30: return _ocr_reader
GetterReturn(t) ==
    /\ o_pc[t] = "return"
    /\ o_got' = Append(o_got, [by |-> "get_ocr_reader", instance |-> Val(o_reader)])
    /\ o_pc' = [o_pc EXCEPT ![t] = "call"]
    /\ UNCHANGED <<o_reader, o_built>>
    /\ UNCHANGED <<norm_vars, parse_vars, kyc_vars, date_vars, cmp_vars, sanc_vars,
                   upd_vars, api_vars, det_vars, rl_vars>>

\* ocr.py line 422: one document validation builds an engine and reads with it
ValidationBuildsReader ==
    /\ Len(o_got) < MaxUses
    /\ o_built' = o_built + 1
    /\ o_got' = Append(o_got, [by |-> "validate_document_ocr", instance |-> o_built + 1])
    /\ UNCHANGED <<o_reader, o_pc>>
    /\ UNCHANGED <<norm_vars, parse_vars, kyc_vars, date_vars, cmp_vars, sanc_vars,
                   upd_vars, api_vars, det_vars, rl_vars>>

OcrNext ==
    \/ \E t \in Callers : GetterCheck(t)
    \/ \E t \in Callers : GetterConstruct(t)
    \/ \E t \in Callers : GetterReturn(t)
    \/ ValidationBuildsReader

SpecOcr == OcrInit /\ [][OcrNext]_vars

(***************************************************************************)
(* C1: for every expected failure of validate_document_ocr (no region at   *)
(* any of the four orientations, no text read, both parses failed, a       *)
(* malformed expiry date) the call returns a verdict with valid = FALSE, an *)
(* error and a non-empty details list.                                     *)
(***************************************************************************)
C1_Returned == pc \in {"validated", "face", "done"}

C1_NoRegion ==
    /\ Len(attempts) = 4
    /\ \A k \in DOMAIN attempts : attempts[k].outcome # "region"

C1_NoText ==
    /\ results # None
    /\ \A k \in DOMAIN Val(results) : \A i \in DOMAIN Val(results)[k] :
            Val(results)[k][i] \in Whitespace

C1_BothParsesFailed ==
    /\ <<"parse", "two_line">> \in Range(calls)
    /\ <<"parse", "single_line">> \in Range(calls)
    /\ mrz_data # None
    /\ IsError(Val(mrz_data))

C1_MalformedExpiry ==
    /\ expiry_validation # None
    /\ Val(expiry_validation).is_expired = None

C2_ParsedAndDated ==
    /\ C1_Returned
    /\ mrz_data # None
    /\ ~IsError(Val(mrz_data))
    /\ expiry_validation # None
    /\ Val(expiry_validation).is_expired # None

C3_ExactLengthAndAlphabet ==
    n_pc \in {"normalized", "renormalized"} =>
        /\ Len(n_out) = TargetLength
        /\ \A i \in 1..Len(n_out) : n_out[i] \in MrzAlphabet

\* an input longer than the target, with characters that are stripped, has
\* been normalised
C3_Witness ==
    /\ n_pc = "normalized"
    /\ Len(n_in) > TargetLength
    /\ \E i \in 1..Len(n_in) : n_in[i] \notin MrzAlphabet

(***************************************************************************)
(* C4: normalisation is idempotent: normalising the normalised text gives  *)
(* the normalised text.                                                    *)
(***************************************************************************)
C4_Idempotent == n_pc = "renormalized" => n_again = n_out

(***************************************************************************)
(* C5: parse_mrz reports valid_composite = TRUE only if the document       *)
(* number, birth date, expiry date and personal number check digits and    *)
(* the composite check digit all equal the weighted sum (weights 7, 3, 1,  *)
(* values 0-9, A-Z as 10-35, '<' as 0) modulo 10 of their fields.          *)
(***************************************************************************)
C5_Sum(s) ==
    LET acc[i \in 0..Len(s)] ==
            IF i = 0 THEN 0
            ELSE acc[i - 1] + CharVal(s[i]) * (IF i % 3 = 1 THEN 7 ELSE IF i % 3 = 2 THEN 3 ELSE 1)
    IN  acc[Len(s)]

C5_Passes(field, digit) == digit \in Digits /\ CharVal(digit) = C5_Sum(field) % 10

C5_AllFivePass(l2) ==
    /\ C5_Passes(SubSeq(l2, 1, 9), l2[10])
    /\ C5_Passes(SubSeq(l2, 14, 19), l2[20])
    /\ C5_Passes(SubSeq(l2, 22, 27), l2[28])
    /\ C5_Passes(SubSeq(l2, 29, 42), l2[43])
    /\ C5_Passes(SubSeq(l2, 1, 10) \o SubSeq(l2, 14, 20) \o SubSeq(l2, 22, 43), l2[44])

C5_ValidOnlyIfAllCheckDigitsPass ==
    (p_pc = "parsed" /\ ~IsError(Val(p_data)) /\ Val(p_data).valid_composite)
        => C5_AllFivePass(TD3Line2(p_text))

\* a text with exactly one wrong check digit has been parsed
C5_Witness ==
    /\ p_pc = "parsed"
    /\ p_changed = 1
    /\ ~IsError(Val(p_data))
    /\ ~Val(p_data).valid_composite
    /\ ~C5_AllFivePass(TD3Line2(p_text))

(***************************************************************************)
(* C7: encoding field values into a TD3 text with correct check digits and *)
(* parsing the text gives back the field values and valid_composite = TRUE *)
(***************************************************************************)
C7_SameFields(d, f) ==
    /\ d.document_type = f.document_type
    /\ d.country_code = f.country_code
    /\ d.surname = f.surname
    /\ d.given_names = f.given_names
    /\ d.document_number = f.document_number
    /\ d.nationality = f.nationality
    /\ d.birth_date = f.birth_date
    /\ d.sex = f.sex
    /\ d.expiry_date = f.expiry_date

C7_RoundTrip ==
    (p_pc = "parsed" /\ p_changed = 0)
        => /\ ~IsError(Val(p_data))
           /\ C7_SameFields(Val(p_data), Val(p_fields))
           /\ Val(p_data).valid_composite = TRUE

\* a text with a two-letter document type, names of two words and a short
\* document number has been encoded and parsed
C7_Witness ==
    /\ p_pc = "parsed"
    /\ p_changed = 0
    /\ Len(Val(p_fields).document_type) = 2
    /\ " " \in Range(Val(p_fields).surname)
    /\ " " \in Range(Val(p_fields).given_names)
    /\ Len(Val(p_fields).document_number) < 9

(***************************************************************************)
(* C6: a wrong check digit is no parse failure: a structurally valid text  *)
(* with a wrong check digit parses to all fields with no error and         *)
(* valid_composite = FALSE, expiry validation still runs, and the verdict  *)
(* carries the parsed fields with valid = FALSE.                           *)
(***************************************************************************)
C6_Fields ==
    {"document_type", "country_code", "surname", "given_names", "document_number",
     "nationality", "birth_date", "sex", "expiry_date"}

C6_WrongCheckDigit ==
    /\ C1_Returned
    /\ mrz_text # <<>>
    /\ TD3Structural(mrz_text)
    /\ ~C5_AllFivePass(TD3Line2(mrz_text))

C8_SampleParsesValid ==
    (p_pc = "parsed" /\ p_text = SampleText)
        => /\ ~IsError(Val(p_data))
           /\ C7_SameFields(Val(p_data), SampleFields)
           /\ Val(p_data).valid_composite = TRUE

\* C8 as amended: the sample parses to these fields, and valid_composite is
\* FALSE because the composite check digit of the sample is 8 where the
\* algorithm gives 6; the four field check digits pass
C8_SampleParsesCompositeWrong ==
    (p_pc = "parsed" /\ p_text = SampleText)
        => /\ ~IsError(Val(p_data))
           /\ C7_SameFields(Val(p_data), SampleFields)
           /\ Val(p_data).valid_composite = FALSE
           /\ C5_Sum(SubSeq(SampleLine2, 1, 10) \o SubSeq(SampleLine2, 14, 20)
                        \o SubSeq(SampleLine2, 22, 43)) % 10 = 6
           /\ SampleLine2[44] = "8"

C8_Witness == p_pc = "parsed" /\ p_text = SampleText

(***************************************************************************)
(* C9: normalising the sample text with several '<' read as '-' gives the  *)
(* sample text itself, so that it parses to the same fields.               *)
(***************************************************************************)
C9_NoisySampleIsRestored ==
    (n_pc = "normalized" /\ n_in \in NoisySamples
        /\ Cardinality({k \in DOMAIN n_in : n_in[k] = "-"}) >= 2)
        => /\ n_out = SampleLine1 \o SampleLine2
           /\ parse_mrz(TwoLineForm(n_out)) = parse_mrz(SampleText)

(***************************************************************************)
(* C10: the region locator is tried at 0, 90, 180 and 270 degrees in that  *)
(* order, the first region ends the loop, there are at most four attempts, *)
(* a failure or an exception at one orientation leads to the next, and     *)
(* not-found is returned only after all four have failed.                  *)
(***************************************************************************)
C10_LocateCalls == SelectSeq(calls, LAMBDA c : c[1] = "locate")

C11_Rank(c) ==
    CASE c[1] = "locate" -> 1
      [] c[1] = "reader" -> 2
      [] c[1] = "readtext" -> 3
      [] c[1] = "normalize" -> 4
      [] c[1] = "parse" -> 5
      [] c[1] = "validate_expiry" -> 6
      [] c[1] = "compare" -> 7

C11_Called(stage) == \E k \in DOMAIN calls : calls[k][1] = stage

C11_Parsed == mrz_data # None /\ ~IsError(Val(mrz_data))

C11_StagesInOrderAndTerminal ==
    /\ \A i, j \in DOMAIN calls : i < j => C11_Rank(calls[i]) <= C11_Rank(calls[j])
    /\ \A i, j \in DOMAIN calls :
           (i < j /\ C11_Rank(calls[i]) = C11_Rank(calls[j])) => calls[i][1] \in {"locate", "parse"}
    /\ C11_Called("reader") => \E k \in DOMAIN attempts : attempts[k].outcome = "region"
    /\ C11_Called("readtext") => C11_Called("reader")
    /\ document_validation = Some(VerdictReaderFailed) => ~C11_Called("readtext")
    /\ C11_Called("normalize") => (C11_Called("readtext") /\ results # None /\ ~C1_NoText)
    /\ C11_Called("parse") => C11_Called("normalize")
    /\ C11_Called("validate_expiry") => (C11_Called("parse") /\ C11_Parsed)
    /\ C11_Called("compare") => (C11_Called("validate_expiry") /\ C11_Parsed)
    /\ (C1_Returned /\ ~C11_Parsed) => (~C11_Called("validate_expiry") /\ ~C11_Called("compare"))

\* a run through all the stages, and the comparison, has ended
C11_Witness ==
    /\ pc = "done"
    /\ \A stage \in {"locate", "reader", "readtext", "normalize", "parse",
                      "validate_expiry", "compare"} : C11_Called(stage)

(***************************************************************************)
(* C12: the single-line text is parsed first and the two-line text only    *)
(* when that failed; a parse failure is reported only after both failed.   *)
(***************************************************************************)
C12_ParseCalls == SelectSeq(calls, LAMBDA c : c[1] = "parse")

C12_Forms == [k \in DOMAIN C12_ParseCalls |-> C12_ParseCalls[k][2]]

C12_ParseFailureReported == C1_Returned /\ mrz_data # None /\ IsError(Val(mrz_data))

C13_TwoDigitYear == d_in # None /\ Val(d_in) \in YearDates

C13_Year == 2000 + 10 * CharVal(Val(d_in)[1]) + CharVal(Val(d_in)[2])

C13_YearString == <<"2", "0", Val(d_in)[1], Val(d_in)[2]>>

C13_CenturyIs2000 ==
    /\ (d_pc \in {"validated", "converted"} /\ C13_TwoDigitYear) =>
           /\ Val(d_out).is_expired # None
           /\ SubSeq(Val(Val(d_out).expiry_date_formatted), 1, 4) = C13_YearString
           /\ C13_Year > Val(d_today).date[1] => Val(d_out).is_expired = Some(FALSE)
           /\ C13_Year < Val(d_today).date[1] => Val(d_out).is_expired = Some(TRUE)
    /\ (d_pc = "converted" /\ C13_TwoDigitYear) =>
           /\ Val(d_iso) # None
           /\ SubSeq(Val(Val(d_iso)), 1, 4) = C13_YearString

\* year 99 has been read as 2099 by both functions
C13_Witness ==
    /\ d_pc = "converted"
    /\ C13_TwoDigitYear
    /\ C13_Year = 2099
    /\ Val(d_out).is_expired = Some(FALSE)
    /\ SubSeq(Val(Val(d_iso)), 1, 4) = <<"2", "0", "9", "9">>

(***************************************************************************)
(* C14: for a well-formed YYMMDD, is_expired is TRUE exactly when the      *)
(* expiry date is earlier than the current date; when not expired,         *)
(* days_until_expiry is the number of days from the current date to the    *)
(* expiry date and days_expired is null; when expired, days_expired is the *)
(* number of days since the expiry date and days_until_expiry is null.     *)
(***************************************************************************)
C14_Digit(k) == CharVal(Val(d_in)[k])

C14_WellFormed ==
    /\ d_in # None
    /\ Len(Val(d_in)) = 6
    /\ \A k \in 1..6 : Val(d_in)[k] \in Digits
    /\ DateOk(2000 + 10 * C14_Digit(1) + C14_Digit(2), 10 * C14_Digit(3) + C14_Digit(4),
              10 * C14_Digit(5) + C14_Digit(6))

C14_ExpiryDay ==
    DayNumber(2000 + 10 * C14_Digit(1) + C14_Digit(2), 10 * C14_Digit(3) + C14_Digit(4),
              10 * C14_Digit(5) + C14_Digit(6))

C14_CurrentDay ==
    DayNumber(Val(d_today).date[1], Val(d_today).date[2], Val(d_today).date[3])

C14_ExpiredIffDateEarlier ==
    (d_pc \in {"validated", "converted"} /\ C14_WellFormed) =>
        /\ Val(d_out).is_expired = Some(C14_ExpiryDay < C14_CurrentDay)
        /\ C14_ExpiryDay >= C14_CurrentDay =>
               /\ Val(d_out).days_until_expiry = Some(C14_ExpiryDay - C14_CurrentDay)
               /\ Val(d_out).days_expired = None
        /\ C14_ExpiryDay < C14_CurrentDay =>
               /\ Val(d_out).days_expired = Some(C14_CurrentDay - C14_ExpiryDay)
               /\ Val(d_out).days_until_expiry = None

(***************************************************************************)
(* C15: an expiry string that is missing, too short, non-numeric or has an *)
(* invalid month or day gives valid = FALSE, is_expired null and an error  *)
(* message that holds the string.                                          *)
(***************************************************************************)
C15_Malformed == ~C14_WellFormed

C15_MalformedIsRejected ==
    (d_pc \in {"validated", "converted"} /\ C15_Malformed) =>
        /\ Val(d_out).valid = FALSE
        /\ Val(d_out).is_expired = None
        /\ "error" \in DOMAIN Val(d_out)
        /\ Val(d_out).error # None
        /\ (d_in # None /\ Val(d_in) # <<>>) =>
               /\ Len(Val(Val(d_out).error)) = 2
               /\ Val(Val(d_out).error)[2] = Val(d_in)

(***************************************************************************)
(* C16: a field is in matches or mismatches only if the claimed record     *)
(* supplies a non-empty value for it; a claimed record that supplies no    *)
(* value at all gives empty matches, mismatches and warnings and           *)
(* all_match = TRUE, whatever the MRZ record.                              *)
(***************************************************************************)
C16_Compared == c_pc = "compared"

C16_Evaluated ==
    Range(Val(c_out).matches)
        \cup {Val(c_out).mismatches[k].field : k \in DOMAIN Val(c_out).mismatches}

C16_NothingClaimed == \A k \in DOMAIN Val(c_req) : Val(c_req)[k] = <<>>

C16_SparseComparison ==
    C16_Compared =>
        /\ \A f \in C16_Evaluated : f \in DOMAIN Val(c_req) /\ Val(c_req)[f] # <<>>
        /\ C16_NothingClaimed =>
               /\ Val(c_out).matches = <<>>
               /\ Val(c_out).mismatches = <<>>
               /\ Val(c_out).warnings = <<>>
               /\ Val(c_out).all_match = TRUE

\* a claimed record with every key present and every value empty was compared
C16_Witness ==
    /\ C16_Compared
    /\ C16_NothingClaimed
    /\ Cardinality(DOMAIN Val(c_req)) = 7
    /\ Val(c_out).all_match = TRUE

(***************************************************************************)
(* C17: the document numbers, both non-empty after stripping, compare in   *)
(* one of three ways: equal without case is a match and no warning; else a *)
(* similarity of at least 0.90 is a match with exactly one warning; else a *)
(* mismatch entry with the MRZ value, the claimed value and the            *)
(* similarity. Nothing else warns, so a warning implies that               *)
(* document_number is in matches.                                          *)
(***************************************************************************)
C17_MrzNumber == Strip(RemoveChar(Val(c_mrz).document_number, "<"))

C17_ClaimedNumber == Strip(Val(c_req)["document_number"])

C17_BothGiven ==
    /\ C16_Compared
    /\ "document_number" \in DOMAIN Val(c_req)
    /\ C17_MrzNumber # <<>>
    /\ C17_ClaimedNumber # <<>>

C17_Similarity == fuzzy_name_match(StrUpper(C17_MrzNumber), StrUpper(C17_ClaimedNumber))

C17_NumberMismatches ==
    SelectSeq(Val(c_out).mismatches, LAMBDA e : e.field = "document_number")

C18_OneCharacterOff ==
    (C17_BothGiven
        /\ C17_MrzNumber = <<"L", "8", "9", "8", "9", "0", "2", "C", "3">>
        /\ C17_ClaimedNumber = <<"L", "8", "9", "8", "9", "0", "2", "C", "9">>)
        => /\ 100 * C17_Similarity[1] >= 90 * C17_Similarity[2]
           /\ "document_number" \in Range(Val(c_out).matches)
           /\ Val(c_out).warnings # <<>>
           /\ C17_NumberMismatches = <<>>

(***************************************************************************)
(* C19: a date of birth or expiry date is a match exactly when the claimed *)
(* string equals 20YY-MM-DD built from the MRZ value YYMMDD, character for *)
(* character; any other claimed value is a mismatch.                       *)
(***************************************************************************)
C19_Iso(d) == <<"2", "0", d[1], d[2], "-", d[3], d[4], "-", d[5], d[6]>>

C19_Claimed(key) ==
    /\ C16_Compared
    /\ key \in DOMAIN Val(c_req)
    /\ Val(c_req)[key] # <<>>

C19_MismatchesOf(key) == SelectSeq(Val(c_out).mismatches, LAMBDA e : e.field = key)

C19_ExactFor(mrz_key, key) ==
    (C19_Claimed(key) /\ Len(Val(c_mrz)[mrz_key]) = 6
        /\ \A i \in 1..6 : Val(c_mrz)[mrz_key][i] \in Digits) =>
        IF Val(c_req)[key] = C19_Iso(Val(c_mrz)[mrz_key])
        THEN /\ key \in Range(Val(c_out).matches)
             /\ C19_MismatchesOf(key) = <<>>
        ELSE /\ key \notin Range(Val(c_out).matches)
             /\ C19_MismatchesOf(key) =
                    <<[field |-> key, mrz_value |-> C19_Iso(Val(c_mrz)[mrz_key]),
                       request_value |-> Val(c_req)[key]]>>

C19_DatesCompareExactly ==
    /\ C19_ExactFor("birth_date", "date_of_birth")
    /\ C19_ExactFor("expiry_date", "expiry_date")

\* a claimed date of birth in another century than the converted MRZ date
\* was recorded as a mismatch
C19_Witness ==
    /\ C19_Claimed("date_of_birth")
    /\ Val(c_mrz).birth_date = <<"6", "9", "0", "8", "0", "6">>
    /\ Val(c_req)["date_of_birth"] = <<"1", "9", "6", "9", "-", "0", "8", "-", "0", "6">>
    /\ C19_MismatchesOf("date_of_birth") # <<>>

(***************************************************************************)
(* C20: after a load() without a path has succeeded, every later load()    *)
(* without a path returns the cached data without reading the file, until  *)
(* clear_cache() is called; after clear_cache() the next load() without a  *)
(* path reads the file; all loads of the unchanged file return equal data. *)
(***************************************************************************)
C20_DefaultLoad(k) == s_log[k].op = "load" /\ s_log[k].path = None

C20_Succeeded(k) == s_log[k].op = "load" /\ s_log[k].outcome = "returned"

C20_CacheServesLaterLoads ==
    /\ \A i, j \in DOMAIN s_log :
           (/\ i < j
            /\ C20_DefaultLoad(i) /\ C20_Succeeded(i)
            /\ C20_DefaultLoad(j)
            /\ \A k \in (i + 1)..(j - 1) : s_log[k].op # "clear_cache")
           => /\ s_log[j].read = FALSE
              /\ s_log[j].outcome = "returned"
              /\ s_log[j].data = s_log[i].data
    /\ \A j \in DOMAIN s_log :
           (j > 1 /\ s_log[j - 1].op = "clear_cache" /\ C20_DefaultLoad(j) /\ C20_Succeeded(j))
           => s_log[j].read = TRUE
    /\ \A i, j \in DOMAIN s_log :
           (C20_Succeeded(i) /\ C20_Succeeded(j)) => s_log[i].data = s_log[j].data

(***************************************************************************)
(* C21: update_sanctions_lists returns 0 exactly when the UN and OFAC      *)
(* lists were both downloaded and both converted and the combine step      *)
(* succeeded, whatever happened to the UK and EU lists; the conversion     *)
(* script of a source is run only if its download succeeded; the combine   *)
(* script is run in every case, after all conversions.                     *)
(***************************************************************************)
C21_Ran(script) == \E i \in DOMAIN u_scripts : u_scripts[i] = script

C21_ExitCodeAndScripts ==
    /\ \A s \in Range(Sources) :
           C21_Ran(ConversionScript[s]) => Val(u_results)[s]
    /\ u_pc \in {"summary", "done"} =>
           /\ \A s \in Range(Sources) : C21_Ran(ConversionScript[s]) <=> Val(u_results)[s]
           /\ u_scripts # <<>>
           /\ \A i \in DOMAIN u_scripts :
                  u_scripts[i] = "combine_sanctions.py" <=> i = Len(u_scripts)
    /\ u_pc = "done" =>
           (u_exit = Some(0) <=>
                /\ Val(u_results)["un"] /\ Val(u_results)["ofac"]
                /\ Val(u_conversion_results)["un"] /\ Val(u_conversion_results)["ofac"]
                /\ Val(u_combine_success))
    /\ u_pc = "done" => u_exit \in {Some(0), Some(1)}

C21_Witness ==
    /\ u_pc = "done"
    /\ u_exit = Some(0)
    /\ ~Val(u_results)["uk"]
    /\ Val(u_results)["eu"] /\ ~Val(u_conversion_results)["eu"]

(***************************************************************************)
(* C22: the X-Request-ID header of the response equals the request ID of   *)
(* the audit-log entry written for the request, and equals the client's    *)
(* X-Request-ID header when the client sent one, whether or not the        *)
(* client sent the header.                                                 *)
(***************************************************************************)
C22_ResponseIdIsAuditId ==
    a_pc = "done" =>
        /\ Some(Val(a_response).x_request_id) = Val(a_audit).request_id
        /\ a_header # None => Val(a_response).x_request_id = Val(a_header)

(***************************************************************************)
(* C23: the contours are filtered with width fraction > 0.7 and height     *)
(* fraction > 0.02; only if none survive, with width > 0.6 and height >    *)
(* 0.015; only if still none, with width > 0.5 and height > 0.01; the top  *)
(* edge must be in the bottom half at every tier.  The located lines are   *)
(* the survivors of the first tier that has any, and not-found is declared *)
(* only when the third tier has none.                                      *)
(***************************************************************************)
C23_Tier(width, height) ==
    {i \in DOMAIN m_cnts :
        /\ m_cnts[i].w * width[2] > width[1] * Val(m_image).W
        /\ m_cnts[i].h * height[2] > height[1] * Val(m_image).H
        /\ 2 * m_cnts[i].y > Val(m_image).H}

C23_Survivors ==
    IF C23_Tier(<<7, 10>>, <<2, 100>>) # {} THEN C23_Tier(<<7, 10>>, <<2, 100>>)
    ELSE IF C23_Tier(<<6, 10>>, <<15, 1000>>) # {} THEN C23_Tier(<<6, 10>>, <<15, 1000>>)
    ELSE C23_Tier(<<5, 10>>, <<1, 100>>)

C23_TieredRelaxation ==
    m_pc = "done" =>
        /\ Range(Val(m_out).mrz_lines) = {m_cnts[i] : i \in C23_Survivors}
        /\ Val(m_out).mrzBox = None <=> C23_Survivors = {}

(***************************************************************************)
(* C24: at the strict tier a contour is accepted as an MRZ line exactly    *)
(* when its width is more than 0.7 of the image width, its height is more  *)
(* than 0.02 of the image height, and its top edge lies below the middle   *)
(* of the image (y > H/2).                                                 *)
(***************************************************************************)
C24_WideAndHigh(b) ==
    /\ 10 * b.w > 7 * Val(m_image).W
    /\ 50 * b.h > Val(m_image).H

C24_StrictTierTopEdge ==
    m_pc = "done" =>
        \A i \in DOMAIN m_cnts :
            m_cnts[i] \in Range(Val(m_out).strict)
                <=> (C24_WideAndHigh(m_cnts[i]) /\ 2 * m_cnts[i].y > Val(m_image).H)

\* the claim as first stated: the vertical centre lies in the bottom half
C24_StrictTierCentre ==
    m_pc = "done" =>
        \A i \in DOMAIN m_cnts :
            m_cnts[i] \in Range(Val(m_out).strict)
                <=> (C24_WideAndHigh(m_cnts[i])
                     /\ 2 * m_cnts[i].y + m_cnts[i].h > Val(m_image).H)

C24_Witness ==
    /\ m_pc = "done"
    /\ \E i, j \in DOMAIN m_cnts :
          /\ m_cnts[i] \in Range(Val(m_out).strict)
          /\ C24_WideAndHigh(m_cnts[j])
          /\ 2 * m_cnts[j].y <= Val(m_image).H
          /\ 2 * m_cnts[j].y + m_cnts[j].h > Val(m_image).H
          /\ m_cnts[j] \notin Range(Val(m_out).strict)

(***************************************************************************)
(* C25: when two or more contours survive the filtering, the located box   *)
(* is the union bounding box of the two lowest survivors; when one         *)
(* survives it is that contour's box; when none survive the result is      *)
(* not-found; and the box is the same with the debug flag on or off.       *)
(***************************************************************************)
C25_Union(a, b) ==
    LET Min(p, q) == IF p <= q THEN p ELSE q
        Max(p, q) == IF p >= q THEN p ELSE q
    IN  Box(Min(a.x, b.x), Min(a.y, b.y),
            Max(a.x + a.w, b.x + b.w) - Min(a.x, b.x),
            Max(a.y + a.h, b.y + b.h) - Min(a.y, b.y))

C25_TwoLowest(lines, box) ==
    \E i, j \in DOMAIN lines :
        /\ i # j
        /\ \A k \in DOMAIN lines \ {i, j} : lines[k].y <= lines[i].y /\ lines[k].y <= lines[j].y
        /\ box = C25_Union(lines[i], lines[j])

C25_BoxOfTwoLowest ==
    m_pc = "done" =>
        LET lines == Val(m_out).mrz_lines
            box   == Val(m_out).mrzBox
        IN  /\ Len(lines) >= 2 => box # None /\ C25_TwoLowest(lines, Val(box))
            /\ Len(lines) = 1 => box = Some(lines[1])
            /\ Len(lines) = 0 => box = None
            /\ box = LocateMrz(Val(m_image), m_cnts, ~m_debug).mrzBox

(***************************************************************************)
(* C26: for every located box and image size the padded crop rectangle     *)
(* has x >= 0, y >= 0, x + w <= image width, y + h <= image height, and    *)
(* contains the unpadded box.                                              *)
(***************************************************************************)
C26_CropInsideImageAroundBox ==
    (m_pc = "done" /\ Val(m_out).mrzBox # None) =>
        LET box  == Val(Val(m_out).mrzBox)
            crop == Val(Val(m_out).crop)
        IN  /\ crop.x >= 0 /\ crop.y >= 0
            /\ crop.x + crop.w <= Val(m_image).W
            /\ crop.y + crop.h <= Val(m_image).H
            /\ crop.x <= box.x /\ crop.y <= box.y
            /\ crop.x + crop.w >= box.x + box.w
            /\ crop.y + crop.h >= box.y + box.h

\* the padding is cut at the left and bottom edges and kept at the top
C26_Witness ==
    /\ m_pc = "done"
    /\ Val(m_out).mrzBox # None
    /\ LET box  == Val(Val(m_out).mrzBox)
           crop == Val(Val(m_out).crop)
       IN  /\ (box.w * 3) \div 100 > box.x
           /\ box.y + box.h + (box.h * 4) \div 100 > Val(m_image).H
           /\ crop.x = 0
           /\ crop.y < box.y
           /\ crop.y + crop.h = Val(m_image).H

(***************************************************************************)
(* C27: a '<' is inserted after the first character of the first cleaned   *)
(* line exactly when that line has at least four characters and its first  *)
(* four characters are all letters; nothing else is changed; a first line  *)
(* whose second character is '<' is left as it is; realigning the          *)
(* realigned lines changes nothing.                                        *)
(***************************************************************************)
C27_Letters == {"A", "B", "C", "D", "E", "F", "G", "H", "I", "J", "K", "L", "M",
                "N", "O", "P", "Q", "R", "S", "T", "U", "V", "W", "X", "Y", "Z"}

C27_FourLetters(lines) ==
    /\ lines # <<>>
    /\ Len(lines[1]) >= 4
    /\ \A k \in 1..4 : lines[1][k] \in C27_Letters

C27_Inserted(before, after) ==
    /\ Len(after) = Len(before)
    /\ after[1] = <<before[1][1], "<">> \o SubSeq(before[1], 2, Len(before[1]))
    /\ \A k \in 2..Len(before) : after[k] = before[k]

C27_InsertedExactlyOnce ==
    /\ r_pc \in {"realigned", "done"} =>
          LET cleaned == CleanLines(r_in)
          IN  /\ C27_FourLetters(cleaned) => C27_Inserted(cleaned, r_out)
              /\ ~C27_FourLetters(cleaned) => r_out = cleaned
              /\ (cleaned # <<>> /\ Len(cleaned[1]) >= 2 /\ cleaned[1][2] = "<")
                     => r_out = cleaned
    /\ r_pc = "done" => r_again = r_out

C27_Witness ==
    /\ r_pc = "done"
    /\ C27_FourLetters(CleanLines(r_in))
    /\ r_out # CleanLines(r_in)
    /\ Len(r_out) = 2
    /\ r_out[1][2] = "<"
    /\ r_again = r_out

(***************************************************************************)
(* C28: the normaliser changes a letter or digit to '<' only when it       *)
(* belongs to a run of three or more consecutive characters of {L, I, 1};  *)
(* every other character of [A-Z0-9] of the input appears unchanged and in *)
(* the same order in the output, up to the final padding or truncation.    *)
(* Runs are taken in the text without its invalid characters.              *)
(***************************************************************************)
C28_AlphaNum == Upper \cup Digits

C28_InRun(t, i) ==
    \E a \in 1..i, b \in i..Len(t) :
        /\ b - a >= 2
        /\ \A k \in a..b : t[k] \in {"L", "I", "1"}

\* the letters and digits of the input outside the runs, in order
C28_Kept(t) ==
    SelectSeq([i \in DOMAIN t |->
                  IF t[i] \in C28_AlphaNum /\ ~C28_InRun(t, i) THEN t[i] ELSE ""],
              LAMBDA c : c # "")

C28_OnlyRunsBecomeFillers ==
    n_pc \in {"normalized", "renormalized"} =>
        LET kept   == C28_Kept(RemoveInvalid(n_in))
            output == SelectSeq(n_out, LAMBDA c : c \in C28_AlphaNum)
        IN  /\ Len(output) <= Len(kept)
            /\ SubSeq(kept, 1, Len(output)) = output
            /\ Len(RemoveInvalid(n_in)) <= TargetLength => output = kept

(***************************************************************************)
(* C29: across any sequence of document validations and any interleaving   *)
(* of concurrent callers of get_ocr_reader, the OCR engine is constructed  *)
(* at most once and the same instance is used by every call.               *)
(***************************************************************************)
C29_SingleEngine ==
    /\ o_built <= 1
    /\ \A i, j \in DOMAIN o_got : o_got[i].instance = o_got[j].instance

(***************************************************************************)
(* C30: after a comparison, a field is in exactly one of matches and       *)
(* mismatches when the claimed value and the MRZ value are both non-empty  *)
(* after their normalisation (for a date: the claimed value is non-empty   *)
(* and the MRZ date parses), and in neither list otherwise; all_match is   *)
(* true exactly when mismatches is empty, and match_count and              *)
(* mismatch_count are the lengths of the two lists.  As first stated       *)
(* (C30_EveryClaimedFieldListed) every field with a non-empty claimed      *)
(* value is in exactly one list.                                           *)
(***************************************************************************)
C30_Fields ==
    {"document_number", "last_name", "first_name", "date_of_birth",
     "nationality", "expiry_date", "issuing_country"}

C30_Claimed(f) == Get(Val(c_req), f)

C30_InMatches(f) ==
    Cardinality({k \in DOMAIN Val(c_out).matches : Val(c_out).matches[k] = f})

C30_InMismatches(f) ==
    Cardinality({k \in DOMAIN Val(c_out).mismatches : Val(c_out).mismatches[k].field = f})

C30_BothSidesGiven(f) ==
    CASE f = "document_number" ->
             /\ Strip(C30_Claimed(f)) # <<>>
             /\ Strip(RemoveChar(Val(c_mrz).document_number, "<")) # <<>>
      [] f = "last_name" ->
             /\ normalize_name(C30_Claimed(f)) # <<>>
             /\ normalize_name(Val(c_mrz).surname) # <<>>
      [] f = "first_name" ->
             /\ normalize_name(C30_Claimed(f)) # <<>>
             /\ normalize_name(Val(c_mrz).given_names) # <<>>
      [] f = "date_of_birth" ->
             /\ C30_Claimed(f) # <<>>
             /\ parse_mrz_date(Val(c_mrz).birth_date) # None
      [] f = "nationality" ->
             /\ Strip(C30_Claimed(f)) # <<>>
             /\ Strip(Val(c_mrz).nationality) # <<>>
      [] f = "expiry_date" ->
             /\ C30_Claimed(f) # <<>>
             /\ parse_mrz_date(Val(c_mrz).expiry_date) # None
      [] f = "issuing_country" ->
             /\ Strip(C30_Claimed(f)) # <<>>
             /\ Strip(Val(c_mrz).country_code) # <<>>

C30_Counts ==
    /\ Val(c_out).all_match = (Val(c_out).mismatches = <<>>)
    /\ Val(c_out).match_count = Len(Val(c_out).matches)
    /\ Val(c_out).mismatch_count = Len(Val(c_out).mismatches)

C30_ListedWhenBothSidesGiven ==
    c_pc = "compared" =>
        /\ \A f \in C30_Fields :
               C30_InMatches(f) + C30_InMismatches(f) =
                   IF C30_BothSidesGiven(f) THEN 1 ELSE 0
        /\ C30_Counts

C30_EveryClaimedFieldListed ==
    c_pc = "compared" =>
        /\ \A f \in C30_Fields :
               C30_Claimed(f) # <<>> => C30_InMatches(f) + C30_InMismatches(f) = 1
        /\ C30_Counts

\* a claimed document number met an MRZ without one, while another field
\* matched and a third did not
C30_Witness ==
    /\ c_pc = "compared"
    /\ C30_Claimed("document_number") # <<>>
    /\ ~C30_BothSidesGiven("document_number")
    /\ C30_InMatches("document_number") + C30_InMismatches("document_number") = 0
    /\ C30_InMatches("nationality") = 1
    /\ C30_InMismatches("expiry_date") = 1
    /\ Val(c_out).all_match = FALSE

====
